---- MODULE Spec2Model ----
(***************************************************************************)
(* Model of the depp executor core: table-reference parsing, the database  *)
(* operations factory, the (library, backend) executor registry and the    *)
(* Executor read/write/submit life cycle with its timing accumulators.     *)
(*                                                                         *)
(* Strings that the code takes apart (table references) are sequences of   *)
(* one-character strings; identifiers that the code only compares          *)
(* (library names, backend types, exception classes) are TLA+ strings.     *)
(***************************************************************************)
EXTENDS Integers, Sequences, FiniteSets, TLC

----------------------------------------------------------------------------
(* Bounds of the model *)

\* longest raw (arbitrary, possibly malformed) table reference that is enumerated
MaxRefLen == 3
\* longest segment name of a well-formed table reference
MaxNameLen == 2
\* calls of the registry interface (register, create, get_db_ops) after startup
MaxRegistryCalls == 2
\* last reading of the performance counter
MaxClock == 2
\* read_df and write_df calls the model code makes in one submit
MaxIo == 2
\* writer and reader calls made on the backend in one behaviour
MaxDbOps == 3
\* elements of a list value handed to format_array
MaxListLen == 2
\* rows of a frame handed to prepare_array_columns
MaxRows == 2
\* columns of a table read by a geometry-aware reader
MaxCols == 3
MaxPluginThreads == 3

----------------------------------------------------------------------------
(* Text helpers: str.split(".") and str.strip('"') as Python computes them *)

DQ == "\""
DOT == "."
Letters == {"a", "b"}
Chars == Letters \cup {DOT, DQ}

\* the value of a Python name that is bound to nothing
NoneVal == [cls |-> "NoneType"]

\* a Python str as a value
PyStr(text) == [cls |-> "str", value |-> text]

RECURSIVE Split(_, _)
\* str.split(sep): cuts at every separator, empty pieces kept, never an empty list
Split(s, sep) ==
    IF \E i \in 1..Len(s) : s[i] = sep
    THEN LET i == CHOOSE k \in 1..Len(s) :
                     s[k] = sep /\ \A j \in 1..(k - 1) : s[j] # sep
         IN <<SubSeq(s, 1, i - 1)>> \o Split(SubSeq(s, i + 1, Len(s)), sep)
    ELSE <<s>>

RECURSIVE LStrip(_, _)
LStrip(s, c) == IF Len(s) > 0 /\ s[1] = c THEN LStrip(Tail(s), c) ELSE s

RECURSIVE RStrip(_, _)
RStrip(s, c) ==
    IF Len(s) > 0 /\ s[Len(s)] = c THEN RStrip(SubSeq(s, 1, Len(s) - 1), c) ELSE s

\* str.strip(c): every leading and every trailing occurrence of c is removed
Strip(s, c) == RStrip(LStrip(s, c), c)

\* the list comprehension [p.strip('"') for p in table_name.split(".")]
ParseParts(table_name) ==
    LET raw == Split(table_name, DOT)
    IN [i \in 1..Len(raw) |-> Strip(raw[i], DQ)]

\* a parse that keeps the leading segments instead of the trailing ones
SourceInfoParseLeading(table_name) ==
    LET parts == ParseParts(table_name)
    IN IF Len(parts) < 2
       THEN [ok |-> FALSE, error |-> "IndexError"]
       ELSE [ok |-> TRUE,
             full_name |-> parts[1] \o <<DOT>> \o parts[2],
             schema |-> parts[1],
             table |-> parts[2]]

\* parts[-2] and parts[-1] as Python indexes a list from its end:
\* an IndexError when the list is shorter
SourceInfoParse(table_name) ==
    LET parts == ParseParts(table_name)
        n == Len(parts)
    IN IF n < 2
       THEN [ok |-> FALSE, error |-> "IndexError"]
       ELSE [ok |-> TRUE,
             full_name |-> parts[n - 1] \o <<DOT>> \o parts[n],
             schema |-> parts[n - 1],
             table |-> parts[n]]

----------------------------------------------------------------------------
(* State *)

VARIABLES
    \* SourceInfo.parse applied to one argument
    parseIn,        \* the argument: how it was built, and its text
    parseOut        \* Pending, or what the call produced

parseVars == <<parseIn, parseOut>>

VARIABLES
    \* process-wide state of the executor package
    registry,       \* Executor.registry: (library, db_type) -> ExecutorConfig
    type_mapping,   \* Executor.type_mapping: annotation name -> library
    ops_registry,   \* db.ops_registry: backend type -> operations class
    \* objects constructed so far, by class
    opsCount,       \* PostgresOps / SnowflakeOps instances
    ctxCount,       \* DbContext instances
    execCount,      \* Executor instances
    \* the most recent call of the registry interface and what it produced
    lastCall,
    \* history: the config of the latest register call per key, the library of
    \* the latest register call per handled type
    lastRegistered,
    lastHandled,
    \* per thread, the Executor.create call it is inside or has finished
    creates

regVars == <<registry, type_mapping, ops_registry, opsCount, ctxCount, execCount,
             lastCall, lastRegistered, lastHandled, creates>>

VARIABLES
    \* one Executor and the model code it runs
    executor,       \* the instance: reader, writer, converter, ctx, read_time, write_time
    clock,          \* time.perf_counter(), in ticks
    sub,            \* the submit call in progress: where it is, its code, its start
    call,           \* per thread, the read_df / write_df call it is inside
    held,           \* what the running model code holds: the result of its last write
    outcome,        \* what the last finished submit gave its caller
    hist            \* history: calls counted and ticks measured, per submit

exVars == <<executor, clock, sub, call, held, outcome, hist>>

VARIABLES
    \* the backend database and the writer / reader call made on it
    tables,         \* (schema, table) as the backend stores it -> NoTable or its content
    io,             \* the Writer.write / Reader.read_arrow call in progress
    dbOut,          \* what the last finished call gave its caller
    dbOps           \* calls made so far

dbVars == <<tables, io, dbOut, dbOps>>

VARIABLES
    \* ModelConfig.from_model applied to one model
    modelIn,        \* parsed_model and the functions of compiled_code
    modelOut        \* Pending, or the library inferred and the ModelConfig made

cfgVars == <<modelIn, modelOut>>

VARIABLES
    \* one list value of a list column on its way into a PostgreSQL array
    arrayIn,        \* the list and the is_integer tag of its column
    arrayOut        \* Pending, or the array the column holds after the cast

arrVars == <<arrayIn, arrayOut>>

VARIABLES
    \* one data frame on its way through prepare_array_columns or a writer
    prepIn,         \* the library, the backend and the frame the caller passes
    prepOut         \* Pending, or what came back and what the caller's frame is now

prepVars == <<prepIn, prepOut>>

VARIABLES
    \* one geometry-aware read: reader.read_arrow, then converter.from_arrow
    geoIn,          \* the backend and the table as its catalog describes it
    geoOut          \* Pending, then the GeoArrowResult, then the frame

geoVars == <<geoIn, geoOut>>

VARIABLES
    \* the plugin factory lock and the threads that construct a DeppAdapter
    lockHeldBy,     \* FACTORY.lock: the set of threads holding it, {} when free
    plugin          \* per thread: where it is, in which block, how the body ended

lockVars == <<lockHeldBy, plugin>>

vars == <<parseVars, regVars, exVars, dbVars, cfgVars, arrVars, prepVars, geoVars, lockVars>>

\* what a step of one component leaves alone
OnlyParse == UNCHANGED <<regVars, exVars, dbVars, cfgVars, arrVars, prepVars, geoVars, lockVars>>
OnlyRegistry == UNCHANGED <<parseVars, exVars, dbVars, cfgVars, arrVars, prepVars, geoVars, lockVars>>
OnlyExecutor == UNCHANGED <<parseVars, regVars, dbVars, cfgVars, arrVars, prepVars, geoVars, lockVars>>
OnlyDb == UNCHANGED <<parseVars, regVars, exVars, cfgVars, arrVars, prepVars, geoVars, lockVars>>
OnlyConfig == UNCHANGED <<parseVars, regVars, exVars, dbVars, arrVars, prepVars, geoVars, lockVars>>
OnlyArray == UNCHANGED <<parseVars, regVars, exVars, dbVars, cfgVars, prepVars, geoVars, lockVars>>
OnlyPrepare == UNCHANGED <<parseVars, regVars, exVars, dbVars, cfgVars, arrVars, geoVars, lockVars>>
OnlyGeo == UNCHANGED <<parseVars, regVars, exVars, dbVars, cfgVars, arrVars, prepVars, lockVars>>
OnlyLock == UNCHANGED <<parseVars, regVars, exVars, dbVars, cfgVars, arrVars, prepVars, geoVars>>

Pending == [cls |-> "pending"]

----------------------------------------------------------------------------
(* Table references handed to SourceInfo.parse *)

\* all strings over S of length n
RECURSIVE StringsOfLen(_, _)
StringsOfLen(S, n) ==
    IF n = 0 THEN {<<>>}
    ELSE {<<c>> \o t : c \in S, t \in StringsOfLen(S, n - 1)}

StringsUpTo(S, n) == UNION {StringsOfLen(S, k) : k \in 0..n}

\* segment names: non-empty, free of dots and quotes
Names == StringsUpTo(Letters, MaxNameLen) \ {<<>>}

\* one segment as written: wrapped in double quotes or bare
Written(name, quoted) == IF quoted THEN <<DQ>> \o name \o <<DQ>> ELSE name

RECURSIVE Render(_, _)
\* ["database".]"schema"."table": the segments joined by dots
Render(segs, quoted) ==
    IF Len(segs) = 1 THEN Written(segs[1], quoted[1])
    ELSE Written(segs[1], quoted[1]) \o <<DOT>> \o Render(Tail(segs), Tail(quoted))

SegmentInputs ==
    UNION {{[kind |-> "segments", segs |-> s, quoted |-> q, text |-> Render(s, q)] :
              s \in [1..n -> Names], q \in [1..n -> BOOLEAN]} : n \in 1..3}

RawInputs == {[kind |-> "raw", text |-> t] : t \in StringsUpTo(Chars, MaxRefLen)}

----------------------------------------------------------------------------
(* Python dicts: insertion-ordered lists of (key, value) entries.  A store  *)
(* under a present key replaces the value in place; under a new key it      *)
(* appends an entry.                                                        *)

DictHas(d, k) == \E i \in 1..Len(d) : d[i].key = k

DictIndex(d, k) == CHOOSE i \in 1..Len(d) : d[i].key = k

\* d[k], for a key that is present
DictGet(d, k) == d[DictIndex(d, k)].value

\* d.get(k)
DictGetOrNone(d, k) == IF DictHas(d, k) THEN DictGet(d, k) ELSE NoneVal

\* list(d)
DictKeys(d) == [i \in 1..Len(d) |-> d[i].key]

\* d[k] = v
DictSet(d, k, v) ==
    IF DictHas(d, k)
    THEN [d EXCEPT ![DictIndex(d, k)].value = v]
    ELSE Append(d, [key |-> k, value |-> v])

Range(f) == {f[i] : i \in DOMAIN f}

----------------------------------------------------------------------------
(* The executor registry and the database operations factory *)

Libraries == {"polars", "pandas", "geopandas"}
DbTypes == {"postgres", "snowflake"}
\* names no startup registration uses
OtherLibrary == "rust_frame"
OtherDbType == "duckdb"
AllLibraries == Libraries \cup {OtherLibrary}
AllDbTypes == DbTypes \cup {OtherDbType}
AllKeys == AllLibraries \X AllDbTypes
TypeNames == {"PolarsDbt", "PandasDbt", "GeoPandasDbt", "RustDbt"}

ExecutorConfig(reader, writer, converter) ==
    [reader |-> reader, writer |-> writer, converter |-> converter]

RegisterArgs(library, db_type, handled_types, config) ==
    [library |-> library, db_type |-> db_type,
     handled_types |-> handled_types, config |-> config]

\* the register calls the package makes when it is imported
PostgresRegistrations ==
    << RegisterArgs("polars", "postgres", <<"PolarsDbt">>,
           ExecutorConfig("PostgresReader", "PostgresWriter(polars)", "PolarsConverter")),
       RegisterArgs("pandas", "postgres", <<"PandasDbt">>,
           ExecutorConfig("PostgresReader", "PostgresWriter(pandas)", "PandasConverter")),
       RegisterArgs("geopandas", "postgres", <<"GeoPandasDbt">>,
           ExecutorConfig("PostgresGeoReader", "PostgresGeoWriter", "GeoPandasConverter")) >>

\* ... and those of _register_snowflake, made only when its imports succeed
SnowflakeRegistrations ==
    << RegisterArgs("polars", "snowflake", <<>>,
           ExecutorConfig("SnowflakeReader", "SnowflakeWriter(polars)", "PolarsConverter")),
       RegisterArgs("pandas", "snowflake", <<>>,
           ExecutorConfig("SnowflakeReader", "SnowflakeWriter(pandas)", "PandasConverter")),
       RegisterArgs("geopandas", "snowflake", <<>>,
           ExecutorConfig("SnowflakeGeoReader", "SnowflakeGeoWriter(geopandas)",
                          "GeoPandasConverter")) >>

StartupRegistrations(withSnowflake) ==
    IF withSnowflake THEN PostgresRegistrations \o SnowflakeRegistrations
    ELSE PostgresRegistrations

\* ops_registry as db/__init__.py builds it
StartupOps(withSnowflake) ==
    IF withSnowflake
    THEN << [key |-> "postgres", value |-> "PostgresOps"],
            [key |-> "snowflake", value |-> "SnowflakeOps"] >>
    ELSE << [key |-> "postgres", value |-> "PostgresOps"] >>

\* cls.registry[(library, db_type)] = config, on a first registration only
RegistryStoreKeepFirst(reg, library, db_type, config) ==
    IF DictHas(reg, <<library, db_type>>) THEN reg
    ELSE DictSet(reg, <<library, db_type>>, config)

\* cls.registry[(library, db_type)] = config
RegistryStore(reg, library, db_type, config) ==
    DictSet(reg, <<library, db_type>>, config)

RECURSIVE TypeMappingStore(_, _, _)
\* a register that maps the first handled type only
TypeMappingStoreFirstOnly(tm, handled_types, library) ==
    IF handled_types = <<>> THEN tm
    ELSE DictSet(tm, Head(handled_types), library)

\* for t in handled_types: cls.type_mapping[t] = library
TypeMappingStore(tm, handled_types, library) ==
    IF handled_types = <<>> THEN tm
    ELSE TypeMappingStore(DictSet(tm, Head(handled_types), library),
                          Tail(handled_types), library)

RECURSIVE RegisterAll(_, _)
\* the registry and the type mapping after a list of register calls
RegisterAll(state, calls) ==
    IF calls = <<>> THEN state
    ELSE LET c == Head(calls)
         IN RegisterAll(
                [registry |-> RegistryStore(state.registry, c.library, c.db_type, c.config),
                 type_mapping |-> TypeMappingStore(state.type_mapping,
                                                   c.handled_types, c.library)],
                Tail(calls))

\* history of a list of register calls: the config of the latest one per key
LatestConfig(calls, key) ==
    LET at == {i \in 1..Len(calls) : <<calls[i].library, calls[i].db_type>> = key}
    IN IF at = {} THEN NoneVal
       ELSE calls[CHOOSE i \in at : \A j \in at : j <= i].config

\* ... and the library of the latest one per handled type
LatestLibrary(calls, t) ==
    LET at == {i \in 1..Len(calls) : t \in Range(calls[i].handled_types)}
    IN IF at = {} THEN NoneVal
       ELSE PyStr(calls[CHOOSE i \in at : \A j \in at : j <= i].library)

Credentials(type, user) == [type |-> type, user |-> user]
Users == {"u1", "u2"}

\* get_db_ops that falls back to PostgreSQL for a type it does not know
GetDbOpsDefaultPostgres(creds, ops, built) ==
    [ok |-> TRUE,
     value |-> [cls |-> IF DictHas(ops, creds.type) THEN DictGet(ops, creds.type)
                        ELSE "PostgresOps",
                id |-> built + 1]]

\* get_db_ops(creds): the outcome, given the number of operations objects built
GetDbOps(creds, ops, built) ==
    IF ~DictHas(ops, creds.type)
    THEN [ok |-> FALSE, error |-> "ValueError", what |-> "Unsupported database",
          type |-> creds.type, supported |-> DictKeys(ops)]
    ELSE [ok |-> TRUE, value |-> [cls |-> DictGet(ops, creds.type), id |-> built + 1]]

\* Executor.__init__
ExecutorInit(id, config, ctx) ==
    [cls |-> "Executor", id |-> id,
     reader |-> config.reader, writer |-> config.writer, converter |-> config.converter,
     ctx |-> ctx, read_time |-> 0, write_time |-> 0]

\* DbContext(db_ops, creds)
DbContext(id, db_ops, creds) == [id |-> id, ops |-> db_ops, creds |-> creds]

RegistryCallsLeft == lastCall.no < MaxRegistryCalls

\* Executor.register
Register(library, db_type, handled_types, config) ==
    /\ RegistryCallsLeft
    /\ OnlyRegistry
    /\ registry' = RegistryStore(registry, library, db_type, config)
    /\ type_mapping' = TypeMappingStore(type_mapping, handled_types, library)
    /\ lastRegistered' = [lastRegistered EXCEPT ![<<library, db_type>>] = config]
    /\ lastHandled' = [t \in TypeNames |->
                          IF t \in Range(handled_types) THEN PyStr(library)
                          ELSE lastHandled[t]]
    /\ lastCall' = [no |-> lastCall.no + 1, op |-> "register",
                    args |-> RegisterArgs(library, db_type, handled_types, config),
                    result |-> [ok |-> TRUE, value |-> NoneVal]]
    /\ UNCHANGED <<ops_registry, opsCount, ctxCount, execCount, creates>>

\* Executor.create with the context built before the registry is consulted
CreateContextFirst(library, db_type, creds) ==
    LET key == <<library, db_type>>
        db_ops == GetDbOps(creds, ops_registry, opsCount)
        made == [no |-> lastCall.no + 1, op |-> "create",
                 args |-> [library |-> library, db_type |-> db_type, creds |-> creds]]
    IN /\ RegistryCallsLeft
       /\ OnlyRegistry
       /\ IF ~db_ops.ok
          THEN /\ lastCall' = made @@ [result |-> db_ops]
               /\ UNCHANGED <<opsCount, ctxCount, execCount>>
          ELSE /\ opsCount' = opsCount + 1
               /\ ctxCount' = ctxCount + 1
               /\ IF ~DictHas(registry, key)
                  THEN /\ lastCall' = made @@
                            [result |-> [ok |-> FALSE, error |-> "ValueError",
                                         what |-> "No executor", library |-> library,
                                         db_type |-> db_type,
                                         available |-> DictKeys(registry)]]
                       /\ UNCHANGED execCount
                  ELSE /\ execCount' = execCount + 1
                       /\ lastCall' = made @@
                            [result |-> [ok |-> TRUE,
                                value |-> ExecutorInit(execCount + 1, DictGet(registry, key),
                                    DbContext(ctxCount + 1, db_ops.value, creds))]]
       /\ UNCHANGED <<registry, type_mapping, ops_registry, lastRegistered, lastHandled,
                      creates>>

\* Executor.create
Create(library, db_type, creds) ==
    LET key == <<library, db_type>>
        db_ops == GetDbOps(creds, ops_registry, opsCount)
        made == [no |-> lastCall.no + 1, op |-> "create",
                 args |-> [library |-> library, db_type |-> db_type, creds |-> creds]]
    IN /\ RegistryCallsLeft
       /\ OnlyRegistry
       /\ IF ~DictHas(registry, key)
          THEN \* raise ValueError(f"No executor for ... Available: {list(cls.registry)}")
               /\ lastCall' = made @@
                    [result |-> [ok |-> FALSE, error |-> "ValueError",
                                 what |-> "No executor", library |-> library,
                                 db_type |-> db_type, available |-> DictKeys(registry)]]
               /\ UNCHANGED <<opsCount, ctxCount, execCount>>
          ELSE IF ~db_ops.ok
          THEN \* get_db_ops raises
               /\ lastCall' = made @@ [result |-> db_ops]
               /\ UNCHANGED <<opsCount, ctxCount, execCount>>
          ELSE \* ctx = DbContext(db_ops, creds); cls(cls.registry[key], ctx)
               /\ opsCount' = opsCount + 1
               /\ ctxCount' = ctxCount + 1
               /\ execCount' = execCount + 1
               /\ lastCall' = made @@
                    [result |-> [ok |-> TRUE,
                        value |-> ExecutorInit(execCount + 1, DictGet(registry, key),
                                    DbContext(ctxCount + 1, db_ops.value, creds))]]
       /\ UNCHANGED <<registry, type_mapping, ops_registry, lastRegistered, lastHandled,
                      creates>>

\* get_db_ops called on its own
GetDbOpsCall(creds) ==
    LET db_ops == GetDbOps(creds, ops_registry, opsCount)
    IN /\ RegistryCallsLeft
       /\ OnlyRegistry
       /\ lastCall' = [no |-> lastCall.no + 1, op |-> "get_db_ops",
                       args |-> [creds |-> creds], result |-> db_ops]
       /\ opsCount' = IF db_ops.ok THEN opsCount + 1 ELSE opsCount
       /\ UNCHANGED <<registry, type_mapping, ops_registry, ctxCount, execCount,
                      lastRegistered, lastHandled, creates>>

\* Executor.get_library_for_type
GetLibraryForType(type_hint) ==
    /\ RegistryCallsLeft
    /\ OnlyRegistry
    /\ lastCall' = [no |-> lastCall.no + 1, op |-> "get_library_for_type",
                    args |-> [type_hint |-> type_hint],
                    result |-> [ok |-> TRUE,
                                value |-> DictGetOrNone(type_mapping, type_hint)]]
    /\ UNCHANGED <<registry, type_mapping, ops_registry, opsCount, ctxCount, execCount,
                   lastRegistered, lastHandled, creates>>

----------------------------------------------------------------------------
(* Executor.read_df, Executor.write_df and Executor.submit *)

Threads == {1, 2}
\* the thread that calls submit and runs main; the model may start others
MainThread == 1

IdleCall == [pc |-> "idle"]

\* what compiled model code can leave in its namespace under the name main
Codes == {[main |-> m] : m \in {"absent", "not_callable", "function"}}

\* table references the model code and the host pass to read_df / write_df
IoRefs == { <<"a", DOT, "b">>,
            <<DQ, "b", DQ, DOT, DQ, "a", DQ, DOT, DQ, "b", DQ>>,
            <<"b">>,
            <<DOT, "b">> }

\* row counts of the frames written
FrameRows == {0, 2}

\* result.py: the dataclass ExecutionResult
ExecutionResult(rows_affected, schema, table) ==
    [cls |-> "ExecutionResult", rows_affected |-> rows_affected,
     schema |-> schema, table |-> table]

ResultFields == {"rows_affected", "schema", "table"}

DataFrame == [cls |-> "DataFrame"]

PyDict(items) == [cls |-> "dict", items |-> items]

\* mappings a model may return: the three fields, one missing, one too many
ReturnedDicts ==
    {PyDict([rows_affected |-> r, schema |-> <<"a">>, table |-> <<"b">>]) : r \in {1, 2}}
    \cup {PyDict([rows_affected |-> 1, schema |-> <<"a">>]),
          PyDict([rows_affected |-> 1, schema |-> <<"a">>, table |-> <<"b">>,
                  extra |-> 0])}

\* values main may return, the result of its last write among them
ReturnValues == ReturnedDicts \cup {NoneVal, DataFrame} \cup {held.lastWrite}

Error(name) == [ok |-> FALSE, error |-> name]

\* a construction by position that takes the table for the schema
ExecutionResultFromDictSwapped(d) ==
    IF DOMAIN d.items = ResultFields
    THEN [ok |-> TRUE,
          value |-> ExecutionResult(d.items.rows_affected, d.items.table, d.items.schema)]
    ELSE Error("TypeError")

\* ExecutionResult(**result): the dataclass constructor takes exactly its fields
ExecutionResultFromDict(d) ==
    IF DOMAIN d.items = ResultFields
    THEN [ok |-> TRUE,
          value |-> ExecutionResult(d.items.rows_affected, d.items.schema, d.items.table)]
    ELSE Error("TypeError")

\* exec_result.<name> = value: any instance with a __dict__ takes a new attribute
\* (an ExecutionResult, a pandas / polars / geopandas frame); None does not
TakesAttributes(obj) == obj.cls \in {"ExecutionResult", "DataFrame"}

\* lines 90-94 of submit: from the value main returned to what submit returns
SubmitResult(result, total_time, read_time, write_time) ==
    LET made == IF result.cls = "dict" THEN ExecutionResultFromDict(result)
                ELSE [ok |-> TRUE, value |-> result]
    IN IF ~made.ok THEN made
       ELSE IF ~TakesAttributes(made.value) THEN Error("AttributeError")
       ELSE [ok |-> TRUE,
             value |-> [read_time |-> read_time, write_time |-> write_time,
                        transform_time |-> total_time - read_time - write_time]
                       @@ made.value]

InSubmit == sub.pc = "main"

\* self.read_df, self.write_df: a bound method object refers to its instance
\* (__self__, here the identity of the instance) and names the function it
\* binds (__func__)
BoundMethod(self, func) == [cls |-> "method", __self__ |-> self.id, __func__ |-> func]

\* the objects alive with the identity that a reference holds
Deref(id) == {obj \in {executor} : obj # NoneVal /\ obj.id = id}

\* line 88: main is called with (self.read_df, self.write_df)
MainArgs(self) == <<BoundMethod(self, "read_df"), BoundMethod(self, "write_df")>>

\* the objects model code can reach from the values it was called with, by
\* attribute access: the instances of the bound methods, their ctx, and the ops
\* and creds of those
ReachableFrom(args) ==
    LET methods   == {args[i] : i \in {j \in DOMAIN args : args[j].cls = "method"}}
        instances == UNION {Deref(m.__self__) : m \in methods}
        contexts  == {e.ctx : e \in instances}
    IN [instances |-> instances,
        contexts  |-> contexts,
        ops       |-> {c.ops : c \in contexts},
        creds     |-> {c.creds : c \in contexts}]

\* what a submit has done so far: the reader and writer calls begun, the ticks
\* the timed statements measured (readTicks, writeTicks), the ticks spent inside
\* the read_df calls that returned, from call to return (readSpan; for write_df
\* the timed statement ends where the call returns)
NoHistory == [readerCalls |-> 0, writerCalls |-> 0, readTicks |-> 0, writeTicks |-> 0,
              readSpan |-> 0, overlap |-> FALSE]

\* a call of thread t made inside the submit ends now: the ticks it lasted
Lasted(t) == IF call[t].inSubmit THEN clock - call[t].start ELSE 0

\* thread t enters a call while a call of another thread is running
Overlaps(t) == \E u \in Threads \ {t} : call[u].pc # "idle"

\* a thread may enter read_df / write_df: the main thread from main or, between
\* submits, as the host; another thread only while main runs
MayCall(t) ==
    /\ call[t].pc = "idle"
    /\ IF t = MainThread THEN sub.pc \in {"idle", "main"} ELSE InSubmit
    /\ InSubmit => hist.readerCalls + hist.writerCalls < MaxIo

\* the calls still running when a submit ends no longer belong to a submit
Outlived(calls) ==
    [t \in Threads |-> IF calls[t].pc = "idle" THEN calls[t]
                       ELSE [calls[t] EXCEPT !.inSubmit = FALSE]]

\* the host, about to make a call of its own, has dropped what the last submit
\* gave it
HostMoves(t) ==
    IF InSubmit THEN UNCHANGED <<outcome, hist>>
    ELSE outcome' = Pending /\ hist' = NoHistory

\* read_df / write_df with a handler that logs the exception and carries on
RaisedDowngraded(t, name, caught) ==
    /\ call' = [call EXCEPT ![t] = IdleCall]
    /\ UNCHANGED <<sub, outcome, held>>

\* an exception leaves a read_df / write_df call of thread t: inside main the
\* model code catches it or lets it end main, and with main the submit; a
\* second thread dies alone; outside submit the host receives it
Raised(t, name, caught) ==
    /\ IF InSubmit /\ t = MainThread /\ ~caught
       THEN /\ sub' = [pc |-> "idle"]
            /\ outcome' = [code |-> sub.code] @@ Error(name)
            /\ held' = [lastWrite |-> NoneVal]
            /\ call' = Outlived([call EXCEPT ![t] = IdleCall])
       ELSE /\ call' = [call EXCEPT ![t] = IdleCall]
            /\ UNCHANGED <<sub, outcome, held>>

\* read_df, lines 65-67: parse the reference, take the start time, call the reader
ReadDf(t, table_name, caught) ==
    LET source == SourceInfoParse(table_name)
    IN /\ MayCall(t)
       /\ OnlyExecutor
       /\ IF ~source.ok
          THEN IF InSubmit
               THEN /\ Raised(t, source.error, caught)
                    /\ UNCHANGED hist
               ELSE /\ HostMoves(t)
                    /\ UNCHANGED <<sub, held, call>>
          ELSE /\ call' = [call EXCEPT ![t] =
                             [pc |-> "reader", op |-> "read_df", source |-> source,
                              start |-> clock, inSubmit |-> InSubmit]]
               /\ IF InSubmit
                  THEN /\ hist' = [hist EXCEPT !.readerCalls = @ + 1,
                                               !.overlap = @ \/ Overlaps(t)]
                       /\ UNCHANGED outcome
                  ELSE HostMoves(t)
               /\ UNCHANGED <<sub, held>>
       /\ UNCHANGED <<executor, clock>>

\* reader.read_arrow returns; the += of line 68 begins by loading self.read_time
ReaderReturns(t) ==
    /\ call[t].pc = "reader"
    /\ OnlyExecutor
    /\ call' = [call EXCEPT ![t] =
                  [pc |-> "read_add", loaded |-> executor.read_time] @@ call[t]]
    /\ UNCHANGED <<executor, clock, sub, held, outcome, hist>>

\* a component called by read_df / write_df raises; handled tells whether the
\* model code made the call inside a try block that handles the exception
Raises(t, name, handled) ==
    /\ call' = [call EXCEPT ![t] =
                  [pc |-> "raising", error |-> name, handled |-> handled] @@ call[t]]
    /\ UNCHANGED <<executor, clock, sub, held, outcome, hist>>

\* read_df and write_df have no handler: the exception leaves the call, the
\* statements after the failed one are skipped
Propagates(t) ==
    /\ call[t].pc = "raising"
    /\ OnlyExecutor
    /\ Raised(t, call[t].error, call[t].handled)
    /\ UNCHANGED <<executor, clock, hist>>

\* reader.read_arrow raises: line 68 is skipped
ReaderRaises(t, caught) ==
    /\ call[t].pc = "reader"
    /\ OnlyExecutor
    /\ Raises(t, "BackendError", caught)

\* line 68 ends: self.read_time = loaded + (perf_counter() - start); then line 69
\* calls the converter
ReadTimeStored(t) ==
    /\ call[t].pc = "read_add"
    /\ OnlyExecutor
    /\ executor' = [executor EXCEPT !.read_time = call[t].loaded + (clock - call[t].start)]
    /\ call' = [call EXCEPT ![t].pc = "converter"]
    /\ hist' = [hist EXCEPT !.readTicks = @ + Lasted(t)]
    /\ UNCHANGED <<clock, sub, held, outcome>>

\* converter.from_arrow returns the frame, and read_df returns it
ConverterReturns(t) ==
    /\ call[t].pc = "converter"
    /\ OnlyExecutor
    /\ call' = [call EXCEPT ![t] = IdleCall]
    /\ hist' = [hist EXCEPT !.readSpan = @ + Lasted(t)]
    /\ UNCHANGED <<executor, clock, sub, held, outcome>>

\* converter.from_arrow raises
ConverterRaises(t, caught) ==
    /\ call[t].pc = "converter"
    /\ OnlyExecutor
    /\ Raises(t, "ConverterError", caught)

\* write_df, lines 73-75: parse the reference, take the start time, call the writer
WriteDf(t, table_name, rows, caught) ==
    LET source == SourceInfoParse(table_name)
    IN /\ MayCall(t)
       /\ OnlyExecutor
       /\ IF ~source.ok
          THEN IF InSubmit
               THEN /\ Raised(t, source.error, caught)
                    /\ UNCHANGED hist
               ELSE /\ HostMoves(t)
                    /\ UNCHANGED <<sub, held, call>>
          ELSE /\ call' = [call EXCEPT ![t] =
                             [pc |-> "writer", op |-> "write_df", source |-> source,
                              rows |-> rows, start |-> clock, inSubmit |-> InSubmit]]
               /\ IF InSubmit
                  THEN /\ hist' = [hist EXCEPT !.writerCalls = @ + 1,
                                               !.overlap = @ \/ Overlaps(t)]
                       /\ UNCHANGED outcome
                  ELSE HostMoves(t)
               /\ UNCHANGED <<sub, held>>
       /\ UNCHANGED <<executor, clock>>

\* writer.write returns its ExecutionResult; the += of line 76 begins by
\* loading self.write_time
WriterReturns(t) ==
    /\ call[t].pc = "writer"
    /\ OnlyExecutor
    /\ call' = [call EXCEPT ![t] =
                  [pc |-> "write_add", loaded |-> executor.write_time] @@ call[t]]
    /\ UNCHANGED <<executor, clock, sub, held, outcome, hist>>

\* writer.write raises: line 76 is skipped
WriterRaises(t, caught) ==
    /\ call[t].pc = "writer"
    /\ OnlyExecutor
    /\ Raises(t, "BackendError", caught)

\* line 76 ends: self.write_time = loaded + (perf_counter() - start); line 77
\* returns the writer's result
WriteTimeStored(t) ==
    LET result == ExecutionResult(call[t].rows, call[t].source.schema, call[t].source.table)
    IN /\ call[t].pc = "write_add"
       /\ OnlyExecutor
       /\ executor' = [executor EXCEPT
                          !.write_time = call[t].loaded + (clock - call[t].start)]
       /\ call' = [call EXCEPT ![t] = IdleCall]
       /\ held' = IF call[t].inSubmit THEN [held EXCEPT !.lastWrite = result] ELSE held
       /\ hist' = [hist EXCEPT !.writeTicks = @ + Lasted(t)]
       /\ UNCHANGED <<clock, sub, outcome>>

\* submit without lines 81-82: the accumulators keep what they held
SubmitStartNoReset(code) ==
    /\ sub.pc = "idle"
    /\ call[MainThread].pc = "idle"
    /\ OnlyExecutor
    /\ sub' = [pc |-> "exec", code |-> code,
               carried |-> executor.read_time + executor.write_time]
    /\ held' = [lastWrite |-> NoneVal]
    /\ outcome' = Pending
    /\ hist' = [NoHistory EXCEPT !.overlap = \E t \in Threads : call[t].pc # "idle"]
    /\ UNCHANGED <<executor, clock, call>>

\* submit, lines 81-83: the accumulators are reset
SubmitStart(code) ==
    /\ sub.pc = "idle"
    /\ call[MainThread].pc = "idle"
    /\ OnlyExecutor
    /\ executor' = [executor EXCEPT !.read_time = 0, !.write_time = 0]
    /\ sub' = [pc |-> "exec", code |-> code,
               carried |-> executor.read_time + executor.write_time]
    /\ held' = [lastWrite |-> NoneVal]
    /\ outcome' = Pending
    /\ hist' = [NoHistory EXCEPT !.overlap = \E t \in Threads : call[t].pc # "idle"]
    /\ UNCHANGED <<clock, call>>

\* submit ends: its caller has the result or the exception, the namespace of
\* the model code is gone
SubmitEnds(result) ==
    /\ sub' = [pc |-> "idle"]
    /\ outcome' = result
    /\ held' = [lastWrite |-> NoneVal]
    /\ call' = Outlived(call)

\* submit, lines 84-88: the code has run; main is looked up, the start time is
\* taken and main is called
SubmitCallsMain ==
    /\ sub.pc = "exec"
    /\ OnlyExecutor
    /\ CASE sub.code.main = "absent" ->
              \* raise RuntimeError("No main function found in compiled code")
              SubmitEnds([code |-> sub.code] @@ Error("RuntimeError"))
         [] sub.code.main = "not_callable" ->
              \* local_vars["main"](...) on a value that is no callable
              SubmitEnds([code |-> sub.code] @@ Error("TypeError"))
         [] OTHER ->
              /\ sub' = [pc |-> "main", start |-> clock, args |-> MainArgs(executor)] @@ sub
              /\ UNCHANGED <<outcome, held, call>>
    /\ UNCHANGED <<executor, clock, hist>>

\* the model's own code raises
MainRaises ==
    /\ InSubmit
    /\ call[MainThread].pc = "idle"
    /\ OnlyExecutor
    /\ SubmitEnds([code |-> sub.code] @@ Error("ModelError"))
    /\ UNCHANGED <<executor, clock, hist>>

\* main returns; submit, lines 89-94
MainReturns(result) ==
    /\ InSubmit
    /\ call[MainThread].pc = "idle"
    /\ OnlyExecutor
    /\ SubmitEnds([code |-> sub.code, carried |-> sub.carried, returned |-> result,
                   lastWrite |-> held.lastWrite, total_time |-> clock - sub.start]
                  @@ SubmitResult(result, clock - sub.start,
                                  executor.read_time, executor.write_time))
    /\ UNCHANGED <<executor, clock, hist>>

\* time passes while anything runs
Tick ==
    /\ clock < MaxClock
    /\ sub.pc # "idle" \/ \E t \in Threads : call[t].pc # "idle"
    /\ OnlyExecutor
    /\ clock' = clock + 1
    /\ UNCHANGED <<executor, sub, call, held, outcome, hist>>

\* SourceInfo.parse called on the argument at hand
ParseCall ==
    /\ parseOut = Pending
    /\ parseOut' = SourceInfoParse(parseIn.text)
    /\ UNCHANGED parseIn
    /\ OnlyParse

----------------------------------------------------------------------------
(* Executor.create called by several threads *)

\* keys and credentials the threads call create with
CreateKeys == {<<"polars", "postgres">>, <<OtherLibrary, "postgres">>}
\* annotation names the threads ask get_library_for_type about
CreateHints == {"PolarsDbt", "RustDbt"}
CreateCreds == {Credentials("postgres", "u1"), Credentials(OtherDbType, "u1")}

\* Executor.create, up to the test of the key: a missing key raises ValueError
CreateBegins(t, key, creds) ==
    /\ creates[t].pc = "idle"
    /\ OnlyRegistry
    /\ creates' = [creates EXCEPT ![t] =
            IF DictHas(registry, key)
            THEN [pc |-> "building", key |-> key, creds |-> creds]
            ELSE [pc |-> "done", key |-> key, creds |-> creds,
                  result |-> [ok |-> FALSE, error |-> "ValueError",
                              what |-> "No executor", library |-> key[1],
                              db_type |-> key[2], available |-> DictKeys(registry)]]]
    /\ UNCHANGED <<registry, type_mapping, ops_registry, opsCount, ctxCount, execCount,
                   lastCall, lastRegistered, lastHandled>>

\* the rest of Executor.create handing out one instance per key again and again
CreateReturnsShared(t) ==
    LET key == creates[t].key
        creds == creates[t].creds
        db_ops == GetDbOps(creds, ops_registry, opsCount)
    IN /\ creates[t].pc = "building"
       /\ OnlyRegistry
       /\ IF ~db_ops.ok
          THEN /\ creates' = [creates EXCEPT ![t] = [pc |-> "done", result |-> db_ops] @@ @]
               /\ UNCHANGED <<opsCount, ctxCount, execCount>>
          ELSE /\ opsCount' = opsCount + 1
               /\ ctxCount' = ctxCount + 1
               /\ UNCHANGED execCount
               /\ creates' = [creates EXCEPT ![t] =
                      [pc |-> "done",
                       result |-> [ok |-> TRUE,
                          value |-> ExecutorInit(execCount + 1, DictGet(registry, key),
                                      DbContext(ctxCount + 1, db_ops.value, creds))]] @@ @]
       /\ UNCHANGED <<registry, type_mapping, ops_registry, lastCall,
                      lastRegistered, lastHandled>>

\* the rest of Executor.create: get_db_ops, DbContext, cls(cls.registry[key], ctx)
CreateReturns(t) ==
    LET key == creates[t].key
        creds == creates[t].creds
        db_ops == GetDbOps(creds, ops_registry, opsCount)
    IN /\ creates[t].pc = "building"
       /\ OnlyRegistry
       /\ IF ~db_ops.ok
          THEN \* get_db_ops raises
               /\ creates' = [creates EXCEPT ![t] = [pc |-> "done", result |-> db_ops] @@ @]
               /\ UNCHANGED <<opsCount, ctxCount, execCount>>
          ELSE IF ~DictHas(registry, key)
          THEN \* cls.registry[key] raises
               /\ opsCount' = opsCount + 1
               /\ ctxCount' = ctxCount + 1
               /\ UNCHANGED execCount
               /\ creates' = [creates EXCEPT ![t] =
                      [pc |-> "done", result |-> Error("KeyError")] @@ @]
          ELSE /\ opsCount' = opsCount + 1
               /\ ctxCount' = ctxCount + 1
               /\ execCount' = execCount + 1
               /\ creates' = [creates EXCEPT ![t] =
                      [pc |-> "done",
                       result |-> [ok |-> TRUE,
                          value |-> ExecutorInit(execCount + 1, DictGet(registry, key),
                                      DbContext(ctxCount + 1, db_ops.value, creds))]] @@ @]
       /\ UNCHANGED <<registry, type_mapping, ops_registry, lastCall,
                      lastRegistered, lastHandled>>

----------------------------------------------------------------------------
(* ModelConfig.from_model and get_library_from_typehint *)


\* the truth value Python's "or" tests: None and the empty string are false
Truthy(v) == v.cls = "str" /\ v.value # ""

PyOr(a, b) == IF Truthy(a) THEN a ELSE b

EmptyDict == <<>>

\* dict.get(key) on a dict with string keys, and dict.get(key, default)
Get(d, key, default) == IF key \in DOMAIN d THEN d[key] ELSE default

\* a parameter without annotation
NoAnnotation == [kind |-> "none"]

\* annotations as the parser delivers them: a Name, an Attribute or a Subscript
\* with the text ast.unparse gives back, a Constant with its value
Name(id) == [kind |-> "Name", text |-> <<id>>]
Attribute(module, attr) == [kind |-> "Attribute", text |-> <<module, DOT, attr>>]
Subscript(text) == [kind |-> "Subscript", text |-> text]
Constant(value) == [kind |-> "Constant", value |-> value]

Annotations ==
    { Name("PolarsDbt"), Name("RustDbt"),
      Attribute("depp", "PandasDbt"),
      Constant(<<"depp", DOT, "GeoPandasDbt">>), Constant(<<"PandasDbt">>),
      Constant(<<"None">>), Constant(<<"PolarsDbt", DOT>>),
      Subscript(<<"Optional[", "PolarsDbt", "]">>),
      Subscript(<<"Optional[", "depp", DOT, "PolarsDbt", "]">>) }

FunctionDef(name, args) == [name |-> name, args |-> args]

\* the FunctionDef nodes of a module, in the order ast.walk visits them
FunctionDefs ==
    { FunctionDef(name, args) :
        name \in {"model", "main"},
        args \in {<<>>, <<NoAnnotation>>} \cup {<<a>> : a \in Annotations}
                  \cup {<<NoAnnotation, Name("PolarsDbt")>>} }

ModelCodes == {<<>>} \cup {<<f>> : f \in FunctionDefs}
              \cup {<<f1, f2>> : f1 \in {FunctionDef("model", <<NoAnnotation>>),
                                          FunctionDef("main", <<Name("PolarsDbt")>>),
                                          FunctionDef("model", <<Name("RustDbt")>>)},
                                  f2 \in FunctionDefs}

\* the text a piece of a dotted annotation denotes: one identifier, or a text
\* that is no identifier (empty, or with brackets in it)
Joined(part) == IF Len(part) = 1 THEN part[1] ELSE "<no identifier>"

\* a lookup that takes the name before the first dot
GetLibraryFromTypehintFirstPart(code, mapping, func) ==
    LET hits == {i \in DOMAIN code : /\ code[i].name = func
                                     /\ Len(code[i].args) > 0
                                     /\ code[i].args[1] # NoAnnotation}
    IN IF hits = {} THEN NoneVal
       ELSE LET ann == code[CHOOSE i \in hits : \A j \in hits : i <= j].args[1]
                text == IF ann.kind = "Constant" THEN ann.value ELSE ann.text
                key == Joined(Split(text, DOT)[1])
            IN IF DictHas(mapping, key) THEN PyStr(DictGet(mapping, key)) ELSE NoneVal

\* get_library_from_typehint(code, mapping, func="model")
GetLibraryFromTypehint(code, mapping, func) ==
    LET hits == {i \in DOMAIN code : /\ code[i].name = func
                                     /\ Len(code[i].args) > 0
                                     /\ code[i].args[1] # NoAnnotation}
    IN IF hits = {} THEN NoneVal
       ELSE LET ann == code[CHOOSE i \in hits : \A j \in hits : i <= j].args[1]
                text == IF ann.kind = "Constant" THEN ann.value ELSE ann.text
                parts == Split(text, DOT)
                key == Joined(parts[Len(parts)])
            IN IF DictHas(mapping, key) THEN PyStr(DictGet(mapping, key)) ELSE NoneVal

\* the values a model's configuration may give for library
ConfiguredLibraries ==
    {NoneVal, PyStr("")} \cup {PyStr(l) : l \in {"polars", "pandas", "geopandas"}}

ParsedModels ==
    {EmptyDict, [config |-> EmptyDict], [config |-> [materialized |-> PyStr("table")]]}
    \cup {[config |-> [library |-> v]] : v \in ConfiguredLibraries}

\* from_model with the type annotation consulted first
FromModelInferredFirst(parsed_model, code, mapping, default_library) ==
    PyOr(PyOr(GetLibraryFromTypehint(code, mapping, "model"),
              Get(Get(parsed_model, "config", EmptyDict), "library", NoneVal)),
         PyStr(default_library))

\* ModelConfig.from_model, lines 24-28: the library
FromModel(parsed_model, code, mapping, default_library) ==
    PyOr(PyOr(Get(Get(parsed_model, "config", EmptyDict), "library", NoneVal),
              GetLibraryFromTypehint(code, mapping, "model")),
         PyStr(default_library))

\* from_model called on the model at hand, with the default default_library
FromModelCall ==
    /\ modelOut = Pending
    /\ modelOut' = [inferred |-> GetLibraryFromTypehint(modelIn.code, type_mapping, "model"),
                    library |-> FromModel(modelIn.parsed_model, modelIn.code,
                                          type_mapping, "polars")]
    /\ UNCHANGED modelIn
    /\ OnlyConfig

----------------------------------------------------------------------------
(* PostgresOps.format_array and the cast of its text to an array type *)

COMMA == ","

\* array_type that knows one array type only
ArrayTypeAlwaysText(is_integer) == "TEXT[]"

\* PostgresOps.array_type
ArrayType(is_integer) == IF is_integer THEN "INTEGER[]" ELSE "TEXT[]"

DigitChars == <<"0", "1", "2", "3", "4", "5", "6", "7", "8", "9">>

RECURSIVE Digits(_)
Digits(n) == IF n < 10 THEN <<DigitChars[n + 1]>>
             ELSE Digits(n \div 10) \o <<DigitChars[(n % 10) + 1]>>

\* str(x) of an int; the str of a str is the str itself
StrOfInt(n) == IF n < 0 THEN <<"-">> \o Digits(-n) ELSE Digits(n)

RECURSIVE Join(_, _)
\* sep.join(pieces)
Join(pieces, sep) ==
    IF Len(pieces) = 0 THEN <<>>
    ELSE IF Len(pieces) = 1 THEN pieces[1]
    ELSE pieces[1] \o <<sep>> \o Join(Tail(pieces), sep)

\* PostgresOps.format_array: "{" + ",".join(str(x) for x in values) + "}"
FormatArray(values, is_integer) ==
    LET texts == [i \in DOMAIN values |->
                    IF is_integer THEN StrOfInt(values[i]) ELSE values[i]]
    IN <<"{">> \o Join(texts, COMMA) \o <<"}">>

RECURSIVE IntOfDigits(_)
IntOfDigits(text) ==
    IF Len(text) = 0 THEN 0
    ELSE 10 * IntOfDigits(SubSeq(text, 1, Len(text) - 1))
         + (CHOOSE d \in 0..9 : DigitChars[d + 1] = text[Len(text)])

IsDigits(text) == Len(text) > 0 /\ \A i \in DOMAIN text : text[i] \in Range(DigitChars)

\* the integer a piece of an array literal denotes, when it denotes one
IntOfText(text) ==
    IF Len(text) > 0 /\ text[1] = "-" /\ IsDigits(Tail(text))
    THEN [ok |-> TRUE, value |-> 0 - IntOfDigits(Tail(text))]
    ELSE IF IsDigits(text) THEN [ok |-> TRUE, value |-> IntOfDigits(text)]
    ELSE [ok |-> FALSE]

\* a piece of an array literal as PostgreSQL reads it: between double quotes
\* the text inside them, otherwise the text itself, which may not be empty
ElementOfPiece(piece) ==
    IF Len(piece) >= 2 /\ piece[1] = DQ /\ piece[Len(piece)] = DQ
       /\ \A i \in 2..(Len(piece) - 1) : piece[i] # DQ
    THEN [ok |-> TRUE, value |-> SubSeq(piece, 2, Len(piece) - 1), quoted |-> TRUE]
    ELSE [ok |-> Len(piece) > 0 /\ \A i \in DOMAIN piece : piece[i] # DQ,
          value |-> piece, quoted |-> FALSE]

RECURSIVE Pieces(_, _, _)
\* the pieces of the inside of an array literal: cut at the commas that are not
\* between double quotes
Pieces(text, piece, inQuotes) ==
    IF Len(text) = 0 THEN <<piece>>
    ELSE IF text[1] = COMMA /\ ~inQuotes
         THEN <<piece>> \o Pieces(Tail(text), <<>>, FALSE)
         ELSE Pieces(Tail(text), Append(piece, text[1]),
                     IF text[1] = DQ THEN ~inQuotes ELSE inQuotes)

\* USING col::INTEGER[] / col::TEXT[]: the array a text denotes, or the error
\* "malformed array literal" / "invalid input syntax for type integer"
CastToArray(text, dtype) ==
    LET inner == SubSeq(text, 2, Len(text) - 1)
        pieces == IF Len(inner) = 0 THEN <<>> ELSE Pieces(inner, <<>>, FALSE)
        elems == [i \in DOMAIN pieces |-> ElementOfPiece(pieces[i])]
        ints == [i \in DOMAIN pieces |-> IntOfText(elems[i].value)]
    IN IF \E i \in DOMAIN elems : ~elems[i].ok THEN Error("DataError")
       ELSE IF dtype = "INTEGER[]"
       THEN IF \E i \in DOMAIN ints : ~ints[i].ok THEN Error("DataError")
            ELSE [ok |-> TRUE, value |-> [i \in DOMAIN ints |-> ints[i].value]]
       ELSE [ok |-> TRUE, value |-> [i \in DOMAIN elems |-> elems[i].value]]

IntElements == {0, 5, 7, 12, -3}
StrElements == {<<>>, <<"a">>, <<"b">>, <<"a", "b">>, <<"a", COMMA, "b">>}

ListsOf(elements) == UNION {[1..n -> elements] : n \in 0..MaxListLen}

\* format_array on the way into the table, the cast after the bulk load
ArrayWritten ==
    /\ arrayOut = Pending
    /\ arrayOut' = CastToArray(FormatArray(arrayIn.xs, arrayIn.is_integer),
                               ArrayType(arrayIn.is_integer))
    /\ UNCHANGED arrayIn
    /\ OnlyArray

----------------------------------------------------------------------------
(* The backend database, the writers and the readers *)

UpperOf == [a |-> "A", b |-> "B", x |-> "X", y |-> "Y", g |-> "G", h |-> "H"]
LowerOf == [A |-> "a", B |-> "b", X |-> "x", Y |-> "y", G |-> "g", H |-> "h"]

\* str.upper, and the folding PostgreSQL applies to an unquoted identifier
Upper(name) == [i \in DOMAIN name |->
                  IF name[i] \in DOMAIN UpperOf THEN UpperOf[name[i]] ELSE name[i]]
Lower(name) == [i \in DOMAIN name |->
                  IF name[i] \in DOMAIN LowerOf THEN LowerOf[name[i]] ELSE name[i]]

NoTable == [cls |-> "absent"]

Schemas == {<<"a">>, <<"A">>}
TableNames == {<<"b">>, <<"B">>}
TableKeys == Schemas \X TableNames

\* references the model code writes to and reads from
DbRefs == { <<"a", DOT, "b">>, <<"a", DOT, "B">> }

\* a dataframe: its columns with the kind of value each holds, and its rows
Frame(cols, rows) == [cols |-> cols, rows |-> rows]

PlainFrames ==
    { Frame([x |-> "scalar"], {}),
      Frame([x |-> "scalar"], {1}),
      Frame([x |-> "scalar", y |-> "scalar"], {2}) }

ListFrames ==
    { Frame([x |-> "scalar", y |-> "int_list"], {1, 2}),
      Frame([y |-> "str_list"], {2}),
      Frame([x |-> "int_list", y |-> "str_list"], {1}) }

GeoFrames == { Frame([x |-> "scalar", g |-> "geometry"], {1}) }

\* the class of a registered writer or reader, and the converter it was given
ClassOf(component) ==
    CASE component \in {"PostgresWriter(polars)", "PostgresWriter(pandas)"} -> "PostgresWriter"
      [] component \in {"SnowflakeWriter(polars)", "SnowflakeWriter(pandas)"} -> "SnowflakeWriter"
      [] component = "SnowflakeGeoWriter(geopandas)" -> "SnowflakeGeoWriter"
      [] OTHER -> component

\* frames of the library an executor works with
FramesOf(ex) ==
    IF ex.converter = "GeoPandasConverter" THEN PlainFrames \cup GeoFrames
    ELSE PlainFrames \cup ListFrames

ColumnsOfKind(df, kinds) == {c \in DOMAIN df.cols : df.cols[c] \in kinds}

\* prepare_array_columns: the list columns, each tagged is_integer from the
\* first value that is not None (False when the column has none)
PrepareArrayColumns(df) ==
    [c \in ColumnsOfKind(df, {"int_list", "str_list"}) |->
        df.rows # {} /\ df.cols[c] = "int_list"]

\* the table a bulk load creates from a frame: list columns arrive as the text
\* format_array made of them, geometry columns as the backend's geometry type
Loaded(df, upper) ==
    LET rename(c) == IF upper THEN Upper(<<c>>)[1] ELSE c
        names == {rename(c) : c \in DOMAIN df.cols}
        from(n) == CHOOSE c \in DOMAIN df.cols : rename(c) = n
    IN [cls |-> "table",
        cols |-> [n \in names |->
                    CASE df.cols[from(n)] \in {"int_list", "str_list"} -> "text"
                      [] OTHER -> df.cols[from(n)]],
        rows |-> df.rows]

\* where each backend keeps the table a SourceInfo names: PostgreSQL under the
\* quoted names, or under the lower-cased ones when the statement leaves them
\* unquoted; Snowflake under the upper-cased names
PgQuoted(source) == <<source.schema, source.table>>
PgUnquoted(source) == <<Lower(source.schema), Lower(source.table)>>
SfKey(source) == <<Upper(source.schema), Upper(source.table)>>

OnPostgres(ex) == ClassOf(ex.writer) \in {"PostgresWriter", "PostgresGeoWriter"}

\* the table a write of this executor replaces, and the one a read selects from
DestKey(ex, source) == IF OnPostgres(ex) THEN PgQuoted(source) ELSE SfKey(source)
ReadKey(ex, source) == IF OnPostgres(ex) THEN PgQuoted(source) ELSE SfKey(source)

DbCallsLeft == io.pc = "idle" /\ dbOps < MaxDbOps

\* a step of Writer.write, for the record of what it did in which order
Step(what) == [step |-> what]
CastStep(what, col, dtype) == [step |-> what, col |-> col, dtype |-> dtype]

\* columns in the order the frame has them (one order per set of columns)
ColumnOrder(cols) ==
    CHOOSE order \in [1..Cardinality(cols) -> cols] :
        \A i, j \in 1..Cardinality(cols) : i # j => order[i] # order[j]

\* what a writer does to the frame before its first statement: the
\* Snowflake geometry writer turns each geometry column into text and then
\* prepares the array columns, the plain writers prepare the array columns
BeforeFirstStatement(class, df) ==
    LET geom_cols == ColumnOrder(ColumnsOfKind(df, {"geometry"}))
    IN CASE class = "SnowflakeGeoWriter" ->
                [i \in DOMAIN geom_cols |-> CastStep("geometry_to_db", geom_cols[i], "text")]
                \o <<Step("prepare_array_columns")>>
         [] class = "PostgresGeoWriter" -> <<>>
         [] OTHER -> <<Step("prepare_array_columns")>>

\* Writer.write(ctx, df, source) is called: the array columns are prepared and
\* the first statement against the backend is next
WriteBegin(table_name, df) ==
    LET source == SourceInfoParse(table_name)
        class == ClassOf(executor.writer)
    IN /\ DbCallsLeft
       /\ source.ok
       /\ OnlyDb
       /\ io' = [pc |-> CASE class = "PostgresWriter" -> "drop_table"
                          [] class = "PostgresGeoWriter" -> "to_postgis"
                          [] OTHER -> "write_pandas",
                 op |-> "write", source |-> source, df |-> df,
                 array_cols |-> PrepareArrayColumns(df),
                 log |-> BeforeFirstStatement(class, df),
                 before |-> tables[DestKey(executor, source)]]
       /\ dbOut' = Pending
       /\ dbOps' = dbOps + 1
       /\ UNCHANGED tables

\* what a write hands back, or the error it ends with
WriteReturned == [op |-> "write", ok |-> TRUE, source |-> io.source, df |-> io.df,
                  before |-> io.before, log |-> io.log,
                  value |-> ExecutionResult(Cardinality(io.df.rows),
                                            io.source.schema, io.source.table)]
WriteFailed == [op |-> "write", ok |-> FALSE, error |-> "BackendError", at |-> io.pc,
                source |-> io.source, df |-> io.df, before |-> io.before,
                log |-> io.log]

\* a statement of the write fails: nothing in the writers handles it
WriteFails ==
    /\ io.pc \notin {"idle"}
    /\ OnlyDb
    /\ io' = [pc |-> "idle"]
    /\ dbOut' = WriteFailed
    /\ UNCHANGED <<tables, dbOps>>

\* the write has issued statements and goes on to its next one, or returns
WriteGoesOn(next, issued) ==
    IF next = "return"
    THEN io' = [pc |-> "idle"] /\ dbOut' = [WriteReturned EXCEPT !.log = @ \o issued]
    ELSE io' = [io EXCEPT !.pc = next, !.log = @ \o issued] /\ UNCHANGED dbOut

\* PostgresOps.drop_table: DROP TABLE IF EXISTS "schema"."table" CASCADE, committed
DropTable ==
    /\ io.pc = "drop_table"
    /\ OnlyDb
    /\ tables' = [tables EXCEPT ![PgQuoted(io.source)] = NoTable]
    /\ WriteGoesOn("write_database", <<Step("drop_table")>>)
    /\ UNCHANGED dbOps

\* polars write_database(if_table_exists="replace"): the table is created from
\* the frame
WriteDatabase ==
    /\ io.pc = "write_database"
    /\ OnlyDb
    /\ tables' = [tables EXCEPT ![PgQuoted(io.source)] = Loaded(io.df, FALSE)]
    /\ WriteGoesOn(IF DOMAIN io.array_cols # {} THEN "alter" ELSE "return",
                   <<Step("write_database")>>)
    /\ UNCHANGED dbOps

\* the ALTER TABLE statements of lines 44-49, in one transaction; schema, table
\* and column are written unquoted in post_write_sql
AlterColumns ==
    LET key == PgUnquoted(io.source)
        cast(c) == ArrayType(io.array_cols[c])
        array_cols == ColumnOrder(DOMAIN io.array_cols)
    IN /\ io.pc = "alter"
       /\ OnlyDb
       /\ tables[key] # NoTable
       /\ DOMAIN io.array_cols \subseteq DOMAIN tables[key].cols
       /\ tables' = [tables EXCEPT ![key].cols =
                        [c \in DOMAIN @ |-> IF c \in DOMAIN io.array_cols
                                            THEN cast(c) ELSE @[c]]]
       /\ WriteGoesOn("return",
                      [i \in DOMAIN array_cols |->
                          CastStep("post_write_sql", array_cols[i], cast(array_cols[i]))])
       /\ UNCHANGED dbOps

\* GeoDataFrame.to_postgis(if_exists="replace"): drop, create and insert in one
\* transaction
ToPostgis ==
    /\ io.pc = "to_postgis"
    /\ OnlyDb
    /\ tables' = [tables EXCEPT ![PgQuoted(io.source)] = Loaded(io.df, FALSE)]
    /\ WriteGoesOn("return", <<Step("to_postgis")>>)
    /\ UNCHANGED dbOps

\* SnowflakeGeoWriter.write, lines 72-76: geometry values become GeoJSON text
GeometryToDb(df) ==
    Frame([c \in DOMAIN df.cols |->
              IF df.cols[c] = "geometry" THEN "text" ELSE df.cols[c]], df.rows)

\* write_pandas that adds the rows to the table it finds (overwrite=False)
WritePandasAppends(old, df) ==
    IF old = NoTable THEN Loaded(df, TRUE)
    ELSE [old EXCEPT !.rows = @ \cup df.rows]

\* write_from_pandas: the columns are upper-cased and write_pandas, with
\* auto_create_table=True and overwrite=True, puts a new table in the place of
\* the old one
WritePandasInto(old, df) == Loaded(df, TRUE)

WritePandas ==
    LET key == SfKey(io.source)
        geom_cols == ColumnsOfKind(io.df, {"geometry"})
    IN /\ io.pc = "write_pandas"
       /\ OnlyDb
       /\ tables' = [tables EXCEPT ![key] = WritePandasInto(@, GeometryToDb(io.df))]
       /\ WriteGoesOn(IF ClassOf(executor.writer) = "SnowflakeGeoWriter" /\ geom_cols # {}
                      THEN "cast_geography" ELSE "return",
                      <<Step("write_pandas")>>)
       /\ UNCHANGED dbOps

\* cast_geography_columns comparing the lower-cased catalog names with the
\* names of the frame as they are: a column is converted only when the frame
\* has it in lower case, which the upper-cased frame never has
CastGeographyColumnsNoMatch ==
    LET key == SfKey(io.source)
    IN /\ io.pc = "cast_geography"
       /\ OnlyDb
       /\ tables[key] # NoTable
       /\ UNCHANGED tables
       /\ WriteGoesOn("return", <<Step("create_or_replace_table_as_select")>>)
       /\ UNCHANGED dbOps

\* cast_geography_columns: CREATE OR REPLACE TABLE ... AS SELECT with
\* TRY_TO_GEOGRAPHY on the geometry columns
CastGeographyColumns ==
    LET key == SfKey(io.source)
        geom_set == {Upper(<<c>>)[1] : c \in ColumnsOfKind(io.df, {"geometry"})}
    IN /\ io.pc = "cast_geography"
       /\ OnlyDb
       /\ tables[key] # NoTable
       /\ tables' = [tables EXCEPT ![key].cols =
                        [c \in DOMAIN @ |-> IF c \in geom_set THEN "geography" ELSE @[c]]]
       /\ WriteGoesOn("return", <<Step("create_or_replace_table_as_select")>>)
       /\ UNCHANGED dbOps

\* Reader.read_arrow and Converter.from_arrow: SELECT * from the table the
\* reference names (quoted on PostgreSQL, upper-cased and unquoted on Snowflake);
\* the frame has the columns and rows the backend returns
ReadArrow(table_name) ==
    LET source == SourceInfoParse(table_name)
        key == ReadKey(executor, source)
    IN /\ DbCallsLeft
       /\ source.ok
       /\ OnlyDb
       /\ dbOut' = IF tables[key] = NoTable
                   THEN [op |-> "read", ok |-> FALSE, error |-> "BackendError",
                         source |-> source, after |-> dbOut]
                   ELSE [op |-> "read", ok |-> TRUE, source |-> source, after |-> dbOut,
                         value |-> Frame(tables[key].cols, tables[key].rows)]
       /\ dbOps' = dbOps + 1
       /\ UNCHANGED <<tables, io>>

----------------------------------------------------------------------------
(* prepare_array_columns of the three converters, on the values of a frame *)

PyInt(n) == [cls |-> "int", value |-> n]
NpInt(n) == [cls |-> "numpy.int64", value |-> n]
PyList(items) == [cls |-> "list", items |-> items]
NdArray(items) == [cls |-> "ndarray", items |-> items]
Geometry == [cls |-> "Point"]

\* a column (pl.Series / pd.Series): its dtype and its cells, top to bottom
Series(dtype, cells) == [dtype |-> dtype, cells |-> cells]

\* is_array_like
IsArrayLike(x) == x.cls \in {"list", "ndarray"}

\* isinstance(x, int)
IsInstanceInt(x) == x.cls \in {"int", "bool"}

\* what iterating over a value yields: the items of a list or an array, the
\* characters of a str
Iter(x) ==
    IF x.cls = "str" THEN [i \in DOMAIN x.value |-> PyStr(<<x.value[i]>>)]
    ELSE x.items

\* str(x)
StrOf(x) ==
    CASE x.cls \in {"int", "numpy.int64"} -> StrOfInt(x.value)
      [] x.cls = "str" -> x.value
      [] OTHER -> <<"N", "o", "n", "e">>

\* SnowflakeOps.format_array: json.dumps of a list of int or of str
JsonDumps(items) ==
    LET text(i) == (IF i > 1 THEN <<" ">> ELSE <<>>)
                   \o (IF items[i].cls = "str" THEN <<DQ>> \o items[i].value \o <<DQ>>
                       ELSE StrOf(items[i]))
    IN <<"[">> \o Join([i \in DOMAIN items |-> text(i)], COMMA) \o <<"]">>

\* db_ops.format_array(v) as a str cell
FormatArrayCell(db_type, v) ==
    PyStr(IF db_type = "snowflake" THEN JsonDumps(Iter(v))
          ELSE FormatArray([i \in DOMAIN Iter(v) |-> StrOf(Iter(v)[i])], FALSE))

\* next((v for v in values if v is not None), None) and
\* df[col].dropna().iloc[0] if df[col].notna().any() else None
FirstNotNone(cells) ==
    LET found == {i \in DOMAIN cells : cells[i] # NoneVal}
    IN IF found = {} THEN NoneVal
       ELSE cells[CHOOSE i \in found : \A j \in found : i <= j]

\* sample is not None and all(isinstance(x, int) for x in sample)
SampleIsInt(sample) ==
    sample # NoneVal /\ \A i \in DOMAIN Iter(sample) : IsInstanceInt(Iter(sample)[i])

\* pl.Series(col, values): the dtype polars infers for cells that are str or None
InferredSeries(cells) ==
    Series(IF \A i \in DOMAIN cells : cells[i] = NoneVal THEN "Null" ELSE "String", cells)

IsPolarsList(dtype) == dtype \in {"List(Int64)", "List(String)"}

\* PolarsConverter.prepare_array_columns: a new frame and the mapping; the
\* frame the caller passed stays as it was
PolarsPrepareArrayColumns(df, db_type) ==
    LET listed == {c \in DOMAIN df : IsPolarsList(df[c].dtype)}
    IN [df |-> [c \in DOMAIN df |->
                  IF c \in listed
                  THEN InferredSeries([i \in DOMAIN df[c].cells |->
                          IF df[c].cells[i] # NoneVal
                          THEN FormatArrayCell(db_type, df[c].cells[i]) ELSE NoneVal])
                  ELSE df[c]],
        array_cols |-> [c \in listed |-> SampleIsInt(FirstNotNone(df[c].cells))],
        passed |-> df]

\* detect_pandas_array_columns: the columns are assigned in the frame it was
\* given, which is the frame it returns
DetectPandasArrayColumns(df, db_type) ==
    LET listed == {c \in DOMAIN df :
                     /\ df[c].dtype = "object"
                     /\ \E i \in DOMAIN df[c].cells : IsArrayLike(df[c].cells[i])}
        new == [c \in DOMAIN df |->
                  IF c \in listed
                  THEN Series("object", [i \in DOMAIN df[c].cells |->
                          IF IsArrayLike(df[c].cells[i])
                          THEN FormatArrayCell(db_type, df[c].cells[i]) ELSE NoneVal])
                  ELSE df[c]]
    IN [df |-> new,
        array_cols |-> [c \in listed |-> SampleIsInt(FirstNotNone(df[c].cells))],
        passed |-> new]

\* converter.prepare_array_columns(df, db_ops)
PrepareArrayColumnsOf(library, df, db_type) ==
    IF library = "polars" THEN PolarsPrepareArrayColumns(df, db_type)
    ELSE DetectPandasArrayColumns(df, db_type)

\* SnowflakeGeoWriter.write: df[col] = df[col].apply(geometry_to_db), assigned
\* in the frame it was given
GeometryStringified(df) ==
    [c \in DOMAIN df |->
        IF df[c].dtype = "geometry"
        THEN Series("object", [i \in DOMAIN df[c].cells |->
                IF df[c].cells[i] # NoneVal
                THEN PyStr(<<"{", "P", "o", "i", "n", "t", "}">>) ELSE NoneVal])
        ELSE df[c]]

\* write_from_pandas: df.columns = df.columns.str.upper()
ColumnsUpper(df) ==
    LET from(n) == CHOOSE c \in DOMAIN df : Upper(<<c>>)[1] = n
    IN [n \in {Upper(<<c>>)[1] : c \in DOMAIN df} |-> df[from(n)]]

\* the frame the caller of Writer.write holds once write has returned
PassedAfterWrite(library, db_type, df) ==
    LET writer == ClassOf(LatestConfig(StartupRegistrations(TRUE),
                                       <<library, db_type>>).writer)
        prepared == PrepareArrayColumnsOf(library, df, db_type).passed
    IN CASE writer = "PostgresWriter" -> prepared
         [] writer = "PostgresGeoWriter" -> df
         [] writer = "SnowflakeWriter" ->
                \* to_pandas hands write_from_pandas the frame itself (pandas)
                \* or a new one (polars)
                IF library = "pandas" THEN ColumnsUpper(prepared) ELSE prepared
         [] writer = "SnowflakeGeoWriter" ->
                \* pd.DataFrame(df) is a new frame over the stringified one
                PrepareArrayColumnsOf(library, GeometryStringified(df), db_type).passed

\* cells of the columns a model builds
IntLists == {PyList(<<>>), PyList(<<PyInt(1), PyInt(2)>>)}
StrLists == {PyList(<<>>), PyList(<<PyStr(<<"a">>)>>)}
CellsOf(dtype) ==
    CASE dtype = "List(Int64)" -> IntLists \cup {NoneVal}
      [] dtype = "List(String)" -> StrLists \cup {NoneVal}
      [] dtype = "Int64" -> {PyInt(1), NoneVal}
      [] dtype = "int64" -> {PyInt(1)}
      [] dtype = "geometry" -> {Geometry, NoneVal}
      [] dtype = "object" -> IntLists \cup StrLists
                                \cup {NoneVal, PyStr(<<"s">>), NdArray(<<NpInt(1)>>)}

DtypesOf(library) ==
    CASE library = "polars" -> {"List(Int64)", "List(String)", "Int64"}
      [] library = "pandas" -> {"object", "int64"}
      [] library = "geopandas" -> {"object", "geometry"}

\* columns of MaxRows cells
SeriesOf(library) ==
    UNION {{Series(dtype, cells) : cells \in [1..MaxRows -> CellsOf(dtype)]}
           : dtype \in DtypesOf(library)}

HasNdArray(df) ==
    \E c \in DOMAIN df : \E i \in DOMAIN df[c].cells : df[c].cells[i].cls = "ndarray"

\* frames of two columns; arrays of numpy integers only where format_array
\* takes them (json.dumps does not)
PrepareInputs ==
    {in \in [library : Libraries, db_type : DbTypes,
             df : UNION {[{"a", "b"} -> SeriesOf(l)] : l \in Libraries}] :
        /\ in.df \in [{"a", "b"} -> SeriesOf(in.library)]
        /\ in.db_type = "snowflake" => ~HasNdArray(in.df)}

\* converter.prepare_array_columns(df, ctx.ops), called as the writers call it
PrepareCall ==
    /\ prepOut = Pending
    /\ prepOut' = [op |-> "prepare_array_columns"]
                   @@ PrepareArrayColumnsOf(prepIn.library, prepIn.df, prepIn.db_type)
    /\ UNCHANGED prepIn
    /\ OnlyPrepare

\* executor.write_df(table_name, df) up to the return of writer.write
WriteCall ==
    /\ prepOut = Pending
    /\ prepOut' = [op |-> "write_df",
                   passed |-> PassedAfterWrite(prepIn.library, prepIn.db_type, prepIn.df)]
    /\ UNCHANGED prepIn
    /\ OnlyPrepare

----------------------------------------------------------------------------
(* The geometry-aware readers and GeoPandasConverter.from_arrow *)

DEFAULT_SRID == 4326

Float(text) == [cls |-> "float", value |-> text]

\* a column of a catalog, of an Arrow table or of a frame
Col(name, kind) == [name |-> name, kind |-> kind]

Wkb(name) == name \o <<"_", "w", "k", "b">>

NamesOf(cols) == {cols[i].name : i \in DOMAIN cols}

\* the orders in which a catalog query without ORDER BY may return rows
OrdersOf(rows) ==
    {order \in [1..Len(rows) -> 1..Len(rows)] :
        \A i, j \in 1..Len(rows) : i # j => order[i] # order[j]}

\* int(row["srid"]) under contextlib.suppress(ValueError, TypeError, KeyError),
\* then srid if srid != 0 else DEFAULT_SRID
SridOfRowKeepZero(value) ==
    IF value.cls = "int" THEN value.value ELSE DEFAULT_SRID

SridOfRow(value) ==
    LET srid == IF value.cls = "int" THEN value.value ELSE DEFAULT_SRID
    IN IF srid # 0 THEN srid ELSE DEFAULT_SRID

\* PostgresOps.get_geometry_columns: the dict, as its items in insertion order
PostgresGetGeometryColumns(catalog, order) ==
    LET rows == SelectSeq(catalog, LAMBDA c : c.kind = "geometry")
    IN [i \in DOMAIN rows |->
          [name |-> rows[order[i]].name, srid |-> SridOfRow(rows[order[i]].srid)]]

\* SnowflakeOps.get_geometry_columns: dict.fromkeys(lower-cased names, DEFAULT_SRID)
SnowflakeGetGeometryColumns(catalog, order) ==
    LET rows == SelectSeq(catalog, LAMBDA c : c.kind = "geometry")
    IN [i \in DOMAIN rows |->
          [name |-> Lower(rows[order[i]].name), srid |-> DEFAULT_SRID]]

\* next(iter(geom_cols.values()), DEFAULT_SRID)
FirstSrid(geom_cols) == IF Len(geom_cols) = 0 THEN DEFAULT_SRID ELSE geom_cols[1].srid

GeoArrowResult(table, geometry_columns, srid, format) ==
    [ok |-> TRUE, table |-> table, geometry_columns |-> geometry_columns,
     srid |-> srid, format |-> format]

\* PostgresGeoReader.read_arrow with the geometry columns after the others
PostgresGeoReadArrow(catalog, order) ==
    LET geom_cols == PostgresGetGeometryColumns(catalog, order)
        geom_names == [i \in DOMAIN geom_cols |-> geom_cols[i].name]
        regular == SelectSeq(catalog, LAMBDA c : c.kind # "geometry")
        \* the names are written without quotes: the backend folds them
        named == [i \in DOMAIN regular |-> Lower(regular[i].name)]
               \o [i \in DOMAIN geom_names |-> Lower(geom_names[i])]
        table == [i \in DOMAIN regular |-> Col(Lower(regular[i].name), "scalar")]
               \o [i \in DOMAIN geom_names |-> Col(Lower(Wkb(geom_names[i])), "wkb")]
    IN IF \E i \in DOMAIN named : named[i] \notin NamesOf(catalog)
       THEN Error("BackendError") @@ [geom_cols |-> geom_cols]
       ELSE GeoArrowResult(table, geom_names, FirstSrid(geom_cols), "wkb")
            @@ [geom_cols |-> geom_cols]

\* SnowflakeGeoReader.read_arrow: SELECT *, then the catalog lookup
SnowflakeGeoReadArrow(catalog, order) ==
    LET geom_cols == SnowflakeGetGeometryColumns(catalog, order)
        table == [i \in DOMAIN catalog |->
                    Col(catalog[i].name,
                        IF catalog[i].kind = "geometry" THEN "geojson" ELSE "scalar")]
    IN GeoArrowResult(table, [i \in DOMAIN geom_cols |-> geom_cols[i].name],
                      FirstSrid(geom_cols), "geojson")
       @@ [geom_cols |-> geom_cols]

\* df[name] = series: in place when the frame has the column, else at the end
Assigned(df, name) ==
    IF name \in NamesOf(df)
    THEN [i \in DOMAIN df |-> IF df[i].name = name THEN Col(name, "geometry") ELSE df[i]]
    ELSE Append(df, Col(name, "geometry"))

RECURSIVE FromWkb(_, _)
\* for col in geometry_columns: df[col] = GeoSeries.from_wkb(df[f"{col}_wkb"])
FromWkb(df, cols) ==
    IF Len(cols) = 0 THEN [ok |-> TRUE, df |-> df]
    ELSE IF Wkb(cols[1]) \notin NamesOf(df) THEN Error("KeyError")
    ELSE FromWkb(Assigned(df, cols[1]), Tail(cols))

RECURSIVE FromGeoJson(_, _)
\* for col in geometry_columns: df[col] = GeoSeries(df[col].apply(from_geojson))
FromGeoJson(df, cols) ==
    IF Len(cols) = 0 THEN [ok |-> TRUE, df |-> df]
    ELSE IF cols[1] \notin NamesOf(df) THEN Error("KeyError")
    ELSE FromGeoJson(Assigned(df, cols[1]), Tail(cols))

\* GeoPandasConverter.from_arrow: the columns of the GeoDataFrame and its
\* active geometry column
GeoFromArrow(result) ==
    LET cols == result.geometry_columns
        made == IF result.format = "wkb" THEN FromWkb(result.table, cols)
                ELSE FromGeoJson(result.table, cols)
        dropped == {Wkb(cols[i]) : i \in DOMAIN cols}
    IN IF Len(cols) = 0
       THEN [ok |-> TRUE, columns |-> result.table, geometry |-> NoneVal]
       ELSE IF ~made.ok THEN made
       ELSE [ok |-> TRUE,
             columns |-> IF result.format = "wkb"
                         THEN SelectSeq(made.df, LAMBDA c : c.name \notin dropped)
                         ELSE made.df,
             geometry |-> cols[1]]

\* catalog SRID values as the query hands them over: an integer, NULL, NaN, text
CatalogSrids == {PyInt(0), PyInt(28992), NoneVal, Float("nan"), PyStr(<<"x">>)}
GeoColumnNames == {<<"g">>, <<"h">>}
PlainColumnNames == {<<"a">>, <<"b">>}

CatalogColumns ==
    {[name |-> n, kind |-> "scalar", srid |-> NoneVal] : n \in PlainColumnNames}
    \cup {[name |-> n, kind |-> "geometry", srid |-> v] :
             n \in GeoColumnNames, v \in CatalogSrids}

\* tables of up to MaxCols columns with different names, in ordinal order
Catalogs ==
    {t \in UNION {[1..n -> CatalogColumns] : n \in 1..MaxCols} :
        \A i, j \in DOMAIN t : i # j => t[i].name # t[j].name}

\* the names as the backend stores them: as written, or upper-cased
StoredAs(catalog, upper) ==
    [i \in DOMAIN catalog |->
        [catalog[i] EXCEPT !.name = IF upper THEN Upper(@) ELSE @]]

\* reader.read_arrow(ctx, source) of the geopandas bundle of the backend
GeoReadArrow ==
    /\ geoOut = Pending
    /\ \E order \in OrdersOf(SelectSeq(geoIn.catalog, LAMBDA c : c.kind = "geometry")) :
          geoOut' = [pc |-> "read_arrow",
                     result |-> IF geoIn.db_type = "postgres"
                                THEN PostgresGeoReadArrow(geoIn.catalog, order)
                                ELSE SnowflakeGeoReadArrow(geoIn.catalog, order)]
    /\ UNCHANGED geoIn
    /\ OnlyGeo

\* read_arrow raised: read_df ends with the error
GeoReadFails ==
    /\ geoOut # Pending
    /\ geoOut.pc = "read_arrow"
    /\ ~geoOut.result.ok
    /\ geoOut' = [geoOut EXCEPT !.pc = "raised"]
    /\ UNCHANGED geoIn
    /\ OnlyGeo

\* converter.from_arrow(arrow)
GeoFromArrowCall ==
    /\ geoOut # Pending
    /\ geoOut.pc = "read_arrow"
    /\ geoOut.result.ok
    /\ geoOut' = [pc |-> "from_arrow", result |-> geoOut.result,
                  frame |-> GeoFromArrow(geoOut.result)]
    /\ UNCHANGED geoIn
    /\ OnlyGeo

----------------------------------------------------------------------------
(* release_plugin_lock, DeppAdapter.__new__ and get_db_credentials *)

PluginThreads == 1..MaxPluginThreads

Position(pc, block, ended) == [pc |-> pc, block |-> block, outcome |-> ended]

Idle == Position("idle", "none", "none")

LockFree == lockHeldBy = {}

\* the thread's position changes, the lock goes to the given holders
PluginStep(t, to, holders) ==
    /\ OnlyLock
    /\ plugin' = [plugin EXCEPT ![t] = to]
    /\ lockHeldBy' = holders

\* the factory takes its lock and constructs the adapter: DeppAdapter.__new__
\* starts with the lock held and calls get_db_credentials first
FactoryConstructs(t) ==
    /\ plugin[t].pc = "idle"
    /\ LockFree
    /\ PluginStep(t, Position("get_db_credentials", "none", "none"), {t})

\* get_db_credentials, config.credentials is a DeppCredentials: the profile's
\* credentials are returned and the lock is not touched
CredentialsOfProfile(t) ==
    /\ plugin[t].pc = "get_db_credentials"
    /\ PluginStep(t, Position("__new__", "none", "none"), lockHeldBy)

\* release_plugin_lock up to the yield: FACTORY.lock.release(); in
\* get_db_credentials for wrapped credentials, in __new__ always
ReleasePluginLockEnter(t) ==
    /\ plugin[t].pc \in {"get_db_credentials", "__new__"}
    /\ PluginStep(t, Position("body", plugin[t].pc, "none"), lockHeldBy \ {t})

\* the body calls into the factory (load_plugin, get_adapter_class_by_name,
\* register_adapter), which takes the lock itself
BodyTakesLock(t) ==
    /\ plugin[t].pc = "body"
    /\ LockFree
    /\ PluginStep(t, [plugin[t] EXCEPT !.pc = "body_locked"], {t})

\* ... and gives it back
BodyGivesLock(t) ==
    /\ plugin[t].pc = "body_locked"
    /\ PluginStep(t, [plugin[t] EXCEPT !.pc = "body"], lockHeldBy \ {t})

\* the body runs to its end
BodyReturns(t) ==
    /\ plugin[t].pc = "body"
    /\ PluginStep(t, [plugin[t] EXCEPT !.pc = "finally", !.outcome = "returned"],
                  lockHeldBy)

\* the body raises; a factory call that raises gives its lock back on the way
BodyRaises(t) ==
    /\ plugin[t].pc \in {"body", "body_locked"}
    /\ PluginStep(t, [plugin[t] EXCEPT !.pc = "finally", !.outcome = "raised"],
                  lockHeldBy \ {t})

\* a release_plugin_lock that takes the lock back after a body that returned only
HoldersAfterBlockNoFinally(t, ended) == IF ended = "raised" THEN {} ELSE {t}

\* finally: FACTORY.lock.acquire()
HoldersAfterBlock(t, ended) == {t}

\* where the thread is when the with statement is left
AfterBlock(block, ended) ==
    IF ended = "raised" THEN Position("raising", block, ended)
    ELSE IF block = "get_db_credentials" THEN Position("__new__", block, ended)
    ELSE Position("constructed", block, ended)

\* release_plugin_lock after the yield: waits for the lock and takes it
ReleasePluginLockExit(t) ==
    /\ plugin[t].pc = "finally"
    /\ LockFree
    /\ PluginStep(t, AfterBlock(plugin[t].block, plugin[t].outcome),
                  HoldersAfterBlock(t, plugin[t].outcome))

\* __new__ has returned or raised: the factory gives up its lock
FactoryDone(t) ==
    /\ plugin[t].pc \in {"constructed", "raising"}
    /\ PluginStep(t, Idle, lockHeldBy \ {t})

----------------------------------------------------------------------------
(* Initial states and specifications *)

\* no adapter is being constructed
LockAtRest ==
    /\ lockHeldBy = {}
    /\ plugin = [t \in PluginThreads |-> Idle]

\* no parse call is in progress
ParseAtRest ==
    /\ parseIn = [kind |-> "raw", text |-> <<>>]
    /\ parseOut = [ok |-> FALSE, error |-> "IndexError"]

\* the package has been imported: db/__init__.py and executors/__init__.py have
\* run, with or without the optional Snowflake modules
StartedUp(withSnowflake) ==
    LET start == RegisterAll([registry |-> <<>>, type_mapping |-> <<>>],
                             StartupRegistrations(withSnowflake))
    IN /\ registry = start.registry
       /\ type_mapping = start.type_mapping
       /\ ops_registry = StartupOps(withSnowflake)
       /\ lastRegistered =
            [k \in AllKeys |-> LatestConfig(StartupRegistrations(withSnowflake), k)]
       /\ lastHandled =
            [t \in TypeNames |-> LatestLibrary(StartupRegistrations(withSnowflake), t)]
       /\ lastCall = [no |-> 0, op |-> "import"]
       /\ creates = [t \in Threads |-> [pc |-> "idle"]]

RegistryAtStartup == \E withSnowflake \in BOOLEAN : StartedUp(withSnowflake)

\* no operations object, context or executor has been built yet
NothingBuilt ==
    /\ opsCount = 0
    /\ ctxCount = 0
    /\ execCount = 0

\* an executor made by Executor.create for a registered key, nothing run on it
ExecutorCreatedFor(key) ==
    LET creds == Credentials(key[2], "u1")
    IN /\ DictHas(registry, key)
       /\ executor = ExecutorInit(1, DictGet(registry, key),
              DbContext(1, GetDbOps(creds, ops_registry, 0).value, creds))
       /\ opsCount = 1
       /\ ctxCount = 1
       /\ execCount = 1

ExecutorCreated == ExecutorCreatedFor(<<"polars", "postgres">>)

\* nothing has been run on the executor
ExecutorAtRest ==
    /\ clock = 0
    /\ sub = [pc |-> "idle"]
    /\ call = [t \in Threads |-> IdleCall]
    /\ held = [lastWrite |-> NoneVal]
    /\ outcome = Pending
    /\ hist = NoHistory

\* no geometry-aware read is in progress
GeoAtRest ==
    /\ geoIn = [db_type |-> "postgres", catalog |-> <<>>]
    /\ geoOut = [pc |-> "none"]
    /\ LockAtRest

\* no frame is on its way
PrepareAtRest ==
    /\ prepIn = [library |-> "polars", db_type |-> "postgres",
                 df |-> [c \in {"a", "b"} |-> Series("Int64", <<PyInt(1), PyInt(1)>>)]]
    /\ prepOut = [op |-> "none"]
    /\ GeoAtRest

\* no list value is on its way
ArrayAtRest ==
    /\ arrayIn = [is_integer |-> TRUE, xs |-> <<>>]
    /\ arrayOut = [ok |-> TRUE, value |-> <<>>]
    /\ PrepareAtRest

\* no from_model call is in progress
ConfigAtRest ==
    /\ modelIn = [parsed_model |-> EmptyDict, code |-> <<>>]
    /\ modelOut = [inferred |-> NoneVal, library |-> PyStr("polars")]
    /\ ArrayAtRest

\* no table exists, no writer or reader has been called
DbAtRest ==
    /\ tables = [k \in TableKeys |-> NoTable]
    /\ io = [pc |-> "idle"]
    /\ dbOut = Pending
    /\ dbOps = 0

\* no executor has been created
NoExecutor == executor = NoneVal /\ NothingBuilt /\ ExecutorAtRest /\ DbAtRest

\* a model arrives at DeppAdapter.submit_python_job after the package was
\* imported
InitConfig ==
    /\ ParseAtRest
    /\ \E withSnowflake \in BOOLEAN : StartedUp(withSnowflake)
    /\ NoExecutor
    /\ modelIn \in [parsed_model : ParsedModels, code : ModelCodes]
    /\ modelOut = Pending
    /\ ArrayAtRest

NextConfig == FromModelCall

SpecConfig == InitConfig /\ [][NextConfig]_vars

\* a list value of an integer-list or a string-list column is written
InitArray ==
    /\ ParseAtRest
    /\ StartedUp(TRUE)
    /\ NoExecutor
    /\ modelIn = [parsed_model |-> EmptyDict, code |-> <<>>]
    /\ modelOut = [inferred |-> NoneVal, library |-> PyStr("polars")]
    /\ \/ arrayIn \in [is_integer : {TRUE}, xs : ListsOf(IntElements)]
       \/ arrayIn \in [is_integer : {FALSE}, xs : ListsOf(StrElements)]
    /\ arrayOut = Pending
    /\ PrepareAtRest

NextArray == ArrayWritten

SpecArray == InitArray /\ [][NextArray]_vars

\* a frame of any registered library is prepared, or written to either backend
InitPrepare ==
    /\ ParseAtRest
    /\ StartedUp(TRUE)
    /\ NoExecutor
    /\ modelIn = [parsed_model |-> EmptyDict, code |-> <<>>]
    /\ modelOut = [inferred |-> NoneVal, library |-> PyStr("polars")]
    /\ arrayIn = [is_integer |-> TRUE, xs |-> <<>>]
    /\ arrayOut = [ok |-> TRUE, value |-> <<>>]
    /\ prepIn \in PrepareInputs
    /\ prepOut = Pending
    /\ GeoAtRest

NextPrepare == PrepareCall \/ WriteCall

SpecPrepare == InitPrepare /\ [][NextPrepare]_vars

\* a geopandas model reads a table of either backend
InitGeo ==
    /\ ParseAtRest
    /\ StartedUp(TRUE)
    /\ NoExecutor
    /\ modelIn = [parsed_model |-> EmptyDict, code |-> <<>>]
    /\ modelOut = [inferred |-> NoneVal, library |-> PyStr("polars")]
    /\ arrayIn = [is_integer |-> TRUE, xs |-> <<>>]
    /\ arrayOut = [ok |-> TRUE, value |-> <<>>]
    /\ prepIn = [library |-> "polars", db_type |-> "postgres",
                 df |-> [c \in {"a", "b"} |-> Series("Int64", <<PyInt(1), PyInt(1)>>)]]
    /\ prepOut = [op |-> "none"]
    /\ \E db_type \in DbTypes, catalog \in Catalogs, upper \in BOOLEAN :
          /\ db_type = "snowflake"
                => \A i \in DOMAIN catalog : catalog[i].srid = NoneVal
          /\ geoIn = [db_type |-> db_type, catalog |-> StoredAs(catalog, upper)]
    /\ geoOut = Pending
    /\ LockAtRest

NextGeo == GeoReadArrow \/ GeoReadFails \/ GeoFromArrowCall

SpecGeo == InitGeo /\ [][NextGeo]_vars

InitLock == ParseAtRest /\ RegistryAtStartup /\ NoExecutor /\ ConfigAtRest

NextLock ==
    \E t \in PluginThreads :
        \/ FactoryConstructs(t)
        \/ CredentialsOfProfile(t)
        \/ ReleasePluginLockEnter(t)
        \/ BodyTakesLock(t)
        \/ BodyGivesLock(t)
        \/ BodyReturns(t)
        \/ BodyRaises(t)
        \/ ReleasePluginLockExit(t)
        \/ FactoryDone(t)

SpecLock == InitLock /\ [][NextLock]_vars

InitParse ==
    /\ parseIn \in SegmentInputs \cup RawInputs
    /\ parseOut = Pending
    /\ ConfigAtRest
    /\ RegistryAtStartup
    /\ NoExecutor

NextParse == ParseCall

SpecParse == InitParse /\ [][NextParse]_vars

\* bundles and handled-type lists that callers register after startup
CustomConfigs ==
    { ExecutorConfig("PostgresReader", "PostgresWriter(polars)", "PolarsConverter"),
      ExecutorConfig("RustReader", "RustWriter", "RustConverter") }
CustomHandled == { <<>>, <<"PolarsDbt">>, <<"RustDbt", "PandasDbt">> }
RegisterLibraries == {"polars", OtherLibrary}
RegisterDbTypes == {"postgres", OtherDbType}

InitRegistry == ParseAtRest /\ RegistryAtStartup /\ NoExecutor /\ ConfigAtRest

NextRegistry ==
    \/ \E library \in RegisterLibraries, db_type \in RegisterDbTypes,
         handled_types \in CustomHandled, config \in CustomConfigs :
           Register(library, db_type, handled_types, config)
    \/ \E library \in AllLibraries, db_type \in AllDbTypes,
         type \in AllDbTypes, user \in Users :
           Create(library, db_type, Credentials(type, user))
    \/ \E type \in AllDbTypes, user \in Users :
           GetDbOpsCall(Credentials(type, user))
    \/ \E type_hint \in TypeNames : GetLibraryForType(type_hint)

SpecRegistry == InitRegistry /\ [][NextRegistry]_vars

\* the package imported with its Snowflake modules, one executor created
Init ==
    /\ ParseAtRest
    /\ StartedUp(TRUE)
    /\ ExecutorCreated
    /\ ExecutorAtRest
    /\ DbAtRest
    /\ ConfigAtRest

\* the steps of a thread inside read_df
Reads(t) ==
    \/ \E table_name \in IoRefs, caught \in BOOLEAN : ReadDf(t, table_name, caught)
    \/ ReaderReturns(t)
    \/ \E caught \in BOOLEAN : ReaderRaises(t, caught)
    \/ ReadTimeStored(t)
    \/ ConverterReturns(t)
    \/ \E caught \in BOOLEAN : ConverterRaises(t, caught)
    \/ call[t].pc = "raising" /\ call[t].op = "read_df" /\ Propagates(t)

\* the steps of a thread inside write_df
Writes(t) ==
    \/ \E table_name \in IoRefs, rows \in FrameRows, caught \in BOOLEAN :
          WriteDf(t, table_name, rows, caught)
    \/ WriterReturns(t)
    \/ \E caught \in BOOLEAN : WriterRaises(t, caught)
    \/ WriteTimeStored(t)
    \/ call[t].pc = "raising" /\ call[t].op = "write_df" /\ Propagates(t)

Control ==
    \/ \E code \in Codes : SubmitStart(code)
    \/ SubmitCallsMain
    \/ MainRaises
    \/ \E result \in ReturnValues : MainReturns(result)
    \/ Tick

\* submits whose model code makes its calls from the thread that runs main
Next == Control \/ Reads(MainThread) \/ Writes(MainThread)

Spec == Init /\ [][Next]_vars

\* the first submit on a new executor, with model code that also calls read
\* from a second thread
NextThreads ==
    \/ \E code \in Codes : outcome = Pending /\ hist = NoHistory /\ SubmitStart(code)
    \/ SubmitCallsMain
    \/ MainRaises
    \/ \E result \in ReturnValues : MainReturns(result)
    \/ Tick
    \/ \E t \in Threads : (sub.pc # "idle" \/ call[t].pc # "idle") /\ Reads(t)
    \/ sub.pc # "idle" /\ Writes(MainThread)

SpecThreads == Init /\ [][NextThreads]_vars

\* an executor of any registered library and backend, and the writer and
\* reader calls its read_df / write_df make on the backend, one after the other
InitDb ==
    /\ ParseAtRest
    /\ StartedUp(TRUE)
    /\ \E key \in Libraries \X DbTypes : ExecutorCreatedFor(key)
    /\ ExecutorAtRest
    /\ DbAtRest
    /\ ConfigAtRest

NextDb ==
    \/ \E table_name \in DbRefs, df \in FramesOf(executor) : WriteBegin(table_name, df)
    \/ WriteFails
    \/ DropTable
    \/ WriteDatabase
    \/ AlterColumns
    \/ ToPostgis
    \/ WritePandas
    \/ CastGeographyColumns
    \/ \E table_name \in DbRefs : ReadArrow(table_name)

SpecDb == InitDb /\ [][NextDb]_vars

\* after startup: threads that call create and get_library_for_type while a
\* submit runs on an executor and its model code reads and writes
NextShared ==
    \/ \E t \in Threads, key \in CreateKeys, creds \in CreateCreds :
          CreateBegins(t, key, creds)
    \/ \E t \in Threads : CreateReturns(t)
    \/ \E type_hint \in CreateHints : GetLibraryForType(type_hint)
    \/ \E code \in Codes : outcome = Pending /\ SubmitStart(code)
    \/ SubmitCallsMain
    \/ \E result \in {NoneVal, held.lastWrite} : MainReturns(result)
    \/ sub.pc # "idle" /\ Reads(MainThread)
    \/ sub.pc # "idle" /\ Writes(MainThread)

SpecShared == Init /\ [][NextShared]_vars

----------------------------------------------------------------------------
(* Properties of the table reference parser *)

\* the segments of a reference that carry a name once the quotes are stripped
UsableSegments(text) == SelectSeq(ParseParts(text), LAMBDA p : Len(p) > 0)

\* C1: a reference written as two or three dot-separated segments, each bare or
\* wrapped in double quotes, parses to schema = the second-to-last segment name,
\* table = the last segment name and full_name = schema.table; a leading
\* (database) segment is discarded, so the two- and the three-segment
\* spellings of one table parse alike.
C1_ParseTakesLastTwo ==
    (parseIn.kind = "segments" /\ Len(parseIn.segs) \in {2, 3} /\ parseOut # Pending)
        => LET n == Len(parseIn.segs)
           IN parseOut = [ok |-> TRUE,
                          full_name |-> parseIn.segs[n - 1] \o <<DOT>> \o parseIn.segs[n],
                          schema |-> parseIn.segs[n - 1],
                          table |-> parseIn.segs[n]]

\* a fully quoted three-segment reference whose database differs from its
\* schema has been parsed
C1_Witness ==
    /\ parseIn.kind = "segments"
    /\ Len(parseIn.segs) = 3
    /\ \A i \in 1..3 : parseIn.quoted[i]
    /\ parseIn.segs[1] # parseIn.segs[2]
    /\ parseOut # Pending
    /\ parseOut.ok
    /\ parseOut.schema = parseIn.segs[2]

\* C2: parsing a reference with fewer than two usable (non-empty once the
\* quotes are stripped) segments fails and yields no SourceInfo.
C2_FewUsableSegmentsFail ==
    (parseOut # Pending /\ Len(UsableSegments(parseIn.text)) < 2) => ~parseOut.ok

----------------------------------------------------------------------------
(* Properties of the registry and the factories *)

\* the step is a call of operation op
CallStep(op) == lastCall'.no # lastCall.no /\ lastCall'.op = op

RegisteredKeys == {k \in AllKeys : lastRegistered[k] # NoneVal}
SupportedTypes == Range(DictKeys(ops_registry))

\* C3: Executor.create for an unregistered (library, db_type) fails with the
\* "No executor" ValueError whose message lists exactly the registered keys, and
\* builds neither a DbContext nor an Executor; for a registered key (and
\* credentials of a supported backend) it returns an Executor holding the
\* reader, writer and converter registered under that key.
C3_CreateResolvesOrRejects ==
    [][CallStep("create") =>
        LET a == lastCall'.args
            key == <<a.library, a.db_type>>
            r == lastCall'.result
        IN /\ key \notin RegisteredKeys =>
                /\ ~r.ok
                /\ r.error = "ValueError"
                /\ r.what = "No executor"
                /\ Range(r.available) = RegisteredKeys
                /\ ctxCount' = ctxCount
                /\ execCount' = execCount
           /\ (key \in RegisteredKeys /\ a.creds.type \in SupportedTypes) =>
                /\ r.ok
                /\ r.value.cls = "Executor"
                /\ r.value.reader = lastRegistered[key].reader
                /\ r.value.writer = lastRegistered[key].writer
                /\ r.value.converter = lastRegistered[key].converter
      ]_vars

\* create("rust_frame", "postgres", creds) has been rejected with the list of
\* the registered keys
C3_Witness ==
    /\ lastCall.op = "create"
    /\ lastCall.args.library = OtherLibrary
    /\ lastCall.args.db_type = "postgres"
    /\ ~lastCall.result.ok
    /\ lastCall.result.what = "No executor"
    /\ Len(lastCall.result.available) >= 3

\* the operations class each backend type stands for
OpsClassOf(type) ==
    CASE type = "postgres" -> "PostgresOps"
      [] type = "snowflake" -> "SnowflakeOps"
      [] OTHER -> "none"

\* C4: get_db_ops picks the operations class by credentials.type alone: a new
\* PostgresOps for "postgres", a new SnowflakeOps for "snowflake" when it is
\* registered, and the "Unsupported database" ValueError, with no object built,
\* for every type outside ops_registry; never the class of another backend.
C4_GetDbOpsByType ==
    [][CallStep("get_db_ops") =>
        LET t == lastCall'.args.creds.type
            r == lastCall'.result
        IN IF t \in SupportedTypes
           THEN /\ r.ok
                /\ r.value.cls = OpsClassOf(t)
                /\ r.value.id \notin 1..opsCount
                /\ opsCount' = opsCount + 1
           ELSE /\ ~r.ok
                /\ r.error = "ValueError"
                /\ r.what = "Unsupported database"
                /\ opsCount' = opsCount
      ]_vars

\* get_db_ops has returned a SnowflakeOps, and it was not the first operations
\* object built
C4_Witness ==
    /\ lastCall.op = "get_db_ops"
    /\ lastCall.args.creds.type = "snowflake"
    /\ lastCall.result.ok
    /\ lastCall.result.value.cls = "SnowflakeOps"
    /\ lastCall.result.value.id = 2

\* C5: after any sequence of register calls the registry holds exactly one
\* entry per registered key and none for any other key, and create resolves a
\* key to the bundle of the latest registration of that key.
C5_RegistryIdempotent ==
    /\ \A k \in AllKeys :
          Cardinality({i \in 1..Len(registry) : registry[i].key = k})
              = IF k \in RegisteredKeys THEN 1 ELSE 0
    /\ (lastCall.op = "create" /\ lastCall.result.ok) =>
          LET key == <<lastCall.args.library, lastCall.args.db_type>>
              e == lastCall.result.value
          IN ExecutorConfig(e.reader, e.writer, e.converter) = lastRegistered[key]

\* a key registered at startup was registered again with another bundle, and
\* create returned the new bundle
C5_Witness ==
    /\ lastCall.op = "create"
    /\ lastCall.args.library = "polars"
    /\ lastCall.args.db_type = "postgres"
    /\ lastCall.result.ok
    /\ lastCall.result.value.reader = "RustReader"
    /\ Len(registry) \in {3, 6}

----------------------------------------------------------------------------
(* Properties of submit *)

Finished == outcome # Pending
\* main was called and returned a value
MainReturned == Finished /\ "returned" \in DOMAIN outcome

\* C6: a submit of code that defines no callable main fails with the
\* "No main function" RuntimeError, and no reader or writer call was made.
C6_NoCallableMainRejected ==
    (Finished /\ outcome.code.main # "function")
        => /\ ~outcome.ok
           /\ outcome.error = "RuntimeError"
           /\ hist.readerCalls = 0
           /\ hist.writerCalls = 0

\* a mapping with exactly the result's fields, or an ExecutionResult
WellFormedReturn(v) ==
    \/ v.cls = "dict" /\ DOMAIN v.items = ResultFields
    \/ v.cls = "ExecutionResult"

\* C7: when main returns anything but a mapping with exactly the fields
\* rows_affected, schema, table or an ExecutionResult, submit fails and hands
\* no value to its caller.
C7_MalformedReturnRejected ==
    (MainReturned /\ ~WellFormedReturn(outcome.returned)) => ~outcome.ok

\* C8: when main returns a mapping with exactly the keys rows_affected, schema
\* and table, submit returns an ExecutionResult with those three values,
\* whatever the write calls of the run returned.
C8_ReturnedMappingIsAuthoritative ==
    (MainReturned /\ outcome.returned.cls = "dict"
                  /\ DOMAIN outcome.returned.items = ResultFields)
        => /\ outcome.ok
           /\ outcome.value.cls = "ExecutionResult"
           /\ outcome.value.rows_affected = outcome.returned.items.rows_affected
           /\ outcome.value.schema = outcome.returned.items.schema
           /\ outcome.value.table = outcome.returned.items.table

\* the last write of the run reported 2 rows and main returned a mapping that
\* says 1 row: the result says 1 row
C8_Witness ==
    /\ MainReturned
    /\ outcome.returned.cls = "dict"
    /\ DOMAIN outcome.returned.items = ResultFields
    /\ outcome.lastWrite # NoneVal
    /\ outcome.lastWrite.rows_affected = 2
    /\ outcome.returned.items.rows_affected = 1
    /\ outcome.ok
    /\ outcome.value.rows_affected = 1

TimingWithinTotal ==
    /\ outcome.value.read_time + outcome.value.write_time <= outcome.total_time
    /\ outcome.value.transform_time >= 0

\* C9: every successful submit, whatever the sequence or overlap
\* of the model's read and write calls, returns read_time + write_time <= the
\* elapsed time of main and transform_time >= 0.
C9_TimingWithinTotalAlways == (Finished /\ outcome.ok) => TimingWithinTotal

\* The sequential case: a successful submit during which no read or write call
\* on the executor ran while another one was running (none was running when the
\* submit began, none began while another ran) keeps the timings within the
\* elapsed time of main.
TimingWithinTotalSequential ==
    (Finished /\ outcome.ok /\ ~hist.overlap) => TimingWithinTotal

\* a submit with a timed read, a timed write and no overlap has returned
SequentialTimedRun ==
    /\ Finished
    /\ outcome.ok
    /\ ~hist.overlap
    /\ outcome.value.read_time = 1
    /\ outcome.value.write_time = 1
    /\ outcome.total_time = 2

\* C10: submit begins by zeroing both accumulators, so the timings of each
\* result are the ticks measured by the reads and the writes of that submit
\* alone, whatever earlier submits and direct read_df / write_df calls left.
C10_TimingsArePerSubmit ==
    /\ sub.pc = "exec" => executor.read_time = 0 /\ executor.write_time = 0
    /\ (Finished /\ outcome.ok)
          => /\ outcome.value.read_time = hist.readTicks
             /\ outcome.value.write_time = hist.writeTicks

\* the accumulators held a tick of earlier calls when the submit began, and
\* the result counts the one tick of the submit's own read
C10_Witness ==
    /\ Finished
    /\ outcome.ok
    /\ outcome.carried >= 1
    /\ hist.readerCalls = 1
    /\ outcome.value.read_time = 1
    /\ outcome.total_time = 1

\* C11: in the result of a successful submit read_time is the time spent inside
\* the model's read calls, each from call to return (conversion included),
\* write_time the time spent inside its write calls, and transform_time the
\* time main spent outside any read or write call.
C11_TimingsAreExact ==
    (Finished /\ outcome.ok)
        => /\ outcome.value.read_time = hist.readSpan
           /\ outcome.value.write_time = hist.writeTicks
           /\ outcome.value.transform_time
                 = outcome.total_time - hist.readSpan - hist.writeTicks

\* C12: the values main is called with give model code no reference path to
\* the executor's DbContext, its database operations or its credentials.
C12_ModelGetsNoContext ==
    InSubmit =>
        LET reach == ReachableFrom(sub.args)
        IN /\ executor.ctx \notin reach.contexts
           /\ executor.ctx.creds \notin reach.creds
           /\ executor.ctx.ops \notin reach.ops

\* C13: when the reader, the converter or the writer raises inside a read or
\* write call of main, the call is left at once with that error: nothing is
\* called again, and unless the model code itself handles the error the submit
\* ends with that same error and returns no result.
C13_ErrorsPropagate ==
    [][ (call[MainThread].pc = "raising" /\ call[MainThread].inSubmit
            /\ call'[MainThread] # call[MainThread])
        => /\ call'[MainThread] = IdleCall
           /\ hist' = hist
           /\ executor' = executor
           /\ IF call[MainThread].handled
              THEN sub' = sub /\ outcome' = outcome
              ELSE /\ sub'.pc = "idle"
                   /\ ~outcome'.ok
                   /\ outcome'.error = call[MainThread].error
                   /\ "value" \notin DOMAIN outcome' ]_vars

\* a submit whose model read a table and then wrote one has ended with the
\* error the writer raised
C13_Witness ==
    /\ Finished
    /\ ~outcome.ok
    /\ outcome.error = "BackendError"
    /\ hist.readerCalls = 1
    /\ hist.writerCalls = 1
    /\ hist.readSpan = 1

----------------------------------------------------------------------------
(* Properties of the writers and readers *)

WriteDone == dbOut # Pending /\ dbOut.op = "write"

\* a column of a frame as the backend names it
StoredColumn(c) == IF OnPostgres(executor) THEN c ELSE Upper(<<c>>)[1]

ReadDone == dbOut # Pending /\ dbOut.op = "read"

Plain(df) == \A c \in DOMAIN df.cols : df.cols[c] = "scalar"

\* C15: a read of T that follows a successful write(T, df) of a frame without
\* geometry or list columns, nothing else written in between, returns a frame
\* with the rows of df and the same set of columns.
C15_WriteThenReadRoundTrip ==
    (/\ ReadDone
     /\ dbOut.after # Pending
     /\ dbOut.after.op = "write"
     /\ dbOut.after.ok
     /\ dbOut.after.source.full_name = dbOut.source.full_name
     /\ Plain(dbOut.after.df))
        => /\ dbOut.ok
           /\ dbOut.value.rows = dbOut.after.df.rows
           /\ DOMAIN dbOut.value.cols = DOMAIN dbOut.after.df.cols

\* C16: a PostgresWriter write to an existing table T that fails, in the bulk
\* load or in the array cast, leaves T as it was before the write began.
C16_FailedWriteLeavesTable ==
    (/\ WriteDone
     /\ ~dbOut.ok
     /\ ClassOf(executor.writer) = "PostgresWriter"
     /\ dbOut.at \in {"write_database", "alter"}
     /\ dbOut.before # NoTable)
        => tables[PgQuoted(dbOut.source)] = dbOut.before

----------------------------------------------------------------------------
(* Properties of the library resolution *)

Resolved == modelOut # Pending

\* the library value of the model's configuration, None when there is none
ExplicitLibrary == Get(Get(modelIn.parsed_model, "config", EmptyDict), "library", NoneVal)

\* C17: the library of a model is the explicit library of its configuration
\* when one is given, otherwise the library inferred from the annotation,
\* otherwise "polars"; the inferred library never replaces an explicit one.
C17_LibraryPriority ==
    Resolved =>
        modelOut.library =
            IF Truthy(ExplicitLibrary) THEN ExplicitLibrary
            ELSE IF modelOut.inferred # NoneVal THEN modelOut.inferred
            ELSE PyStr("polars")

\* a model configured with pandas whose annotation names the polars type
C17_Witness ==
    /\ Resolved
    /\ ExplicitLibrary = PyStr("pandas")
    /\ modelOut.inferred = PyStr("polars")
    /\ modelOut.library = PyStr("pandas")

\* the functions named model whose first parameter carries an annotation
AnnotatedModels ==
    {i \in DOMAIN modelIn.code : /\ modelIn.code[i].name = "model"
                                 /\ Len(modelIn.code[i].args) > 0
                                 /\ modelIn.code[i].args[1].kind # "none"}

\* what is left of a text after its last dot
AfterLastDot(text) ==
    LET dots == {i \in DOMAIN text : text[i] = DOT}
        last == IF dots = {} THEN 0 ELSE CHOOSE i \in dots : \A j \in dots : j <= i
    IN SubSeq(text, last + 1, Len(text))

\* C18: inference returns the library registered for the simple name (the part
\* after the last dot) of the first-parameter annotation of the model function,
\* for plain, dotted and string annotations alike, and None, raising nothing,
\* when there is no such function or annotation or the name is not registered.
C18_InferenceBySimpleName ==
    Resolved =>
        IF AnnotatedModels = {} THEN modelOut.inferred = NoneVal
        ELSE LET f == modelIn.code[CHOOSE i \in AnnotatedModels :
                                      \A j \in AnnotatedModels : i <= j]
                 ann == f.args[1]
                 simple == AfterLastDot(IF ann.kind = "Constant" THEN ann.value
                                        ELSE ann.text)
             IN IF Len(simple) = 1 /\ DictHas(type_mapping, simple[1])
                THEN modelOut.inferred = PyStr(DictGet(type_mapping, simple[1]))
                ELSE modelOut.inferred = NoneVal

\* a string annotation "depp.GeoPandasDbt" has been resolved to geopandas
C18_Witness ==
    /\ Resolved
    /\ \E i \in DOMAIN modelIn.code :
          /\ modelIn.code[i].name = "model"
          /\ modelIn.code[i].args = <<Constant(<<"depp", DOT, "GeoPandasDbt">>)>>
    /\ modelOut.inferred = PyStr("geopandas")

----------------------------------------------------------------------------
(* Properties of the array path *)

\* C19: for every list of integers or of strings, the text format_array makes,
\* cast to the array type of the column, is an array with the elements of the
\* list in the same order.
C19_ArrayRoundTrip ==
    arrayOut # Pending => arrayOut.ok /\ arrayOut.value = arrayIn.xs

----------------------------------------------------------------------------
(* Properties of the shared registry *)

\* the create calls that returned an Executor
Created == {t \in Threads : creates[t].pc = "done" /\ creates[t].result.ok}

\* every executor handed out by create has the components registered for its
\* key at startup and is an object of its own
CreatesResolve ==
    \A t \in Created :
        LET new == creates[t].result.value
            config == LatestConfig(StartupRegistrations(TRUE), creates[t].key)
        IN /\ new.reader = config.reader
           /\ new.writer = config.writer
           /\ new.converter = config.converter
           /\ new.id # executor.id
           /\ \A u \in Created \ {t} : creates[u].result.value.id # new.id

\* C20: once startup registration is over, no step of create, read_df,
\* write_df, submit or get_library_for_type, on any thread and in any
\* interleaving, changes the registry or the type mapping, and every create
\* that returns gives the bundle registered for its key in a new Executor.
C20_RegistryStableUnderThreads ==
    [][ /\ registry' = registry
        /\ type_mapping' = type_mapping
        /\ CreatesResolve' ]_vars

\* both threads have created an executor for one key while a submit is inside
\* a read_df or write_df call, and a get_library_for_type call was answered
C20_Witness ==
    /\ Created = Threads
    /\ creates[1].key = creates[2].key
    /\ sub.pc = "main"
    /\ call[MainThread].pc # "idle"
    /\ lastCall.op = "get_library_for_type"

----------------------------------------------------------------------------
(* Properties of prepare_array_columns and of the frame a writer was given *)

Prepared == prepOut # Pending /\ prepOut.op = "prepare_array_columns"

\* a column without a value that is not None, or without a list or an array
NothingToPrepare(col) ==
    \/ \A i \in DOMAIN col.cells : col.cells[i] = NoneVal
    \/ \A i \in DOMAIN col.cells : ~IsArrayLike(col.cells[i])

\* C21: prepare_array_columns of every converter returns each column that has
\* no value other than None, or no list-like value, with the dtype and the
\* cells it had, and leaves it out of the mapping.
C21_NothingToPrepareUntouched ==
    Prepared =>
        \A c \in DOMAIN prepIn.df :
            NothingToPrepare(prepIn.df[c])
                => /\ prepOut.df[c] = prepIn.df[c]
                   /\ c \notin DOMAIN prepOut.array_cols

\* the elements of the lists and arrays of a column
ElementsOf(col) ==
    UNION {{Iter(col.cells[i])[k] : k \in DOMAIN Iter(col.cells[i])}
           : i \in {j \in DOMAIN col.cells : IsArrayLike(col.cells[j])}}

\* a column whose lists hold integers, and one whose lists hold strings
IsIntegerListColumn(col) ==
    /\ ElementsOf(col) # {}
    /\ \A x \in ElementsOf(col) : x.cls \in {"int", "numpy.int64"}

IsStringListColumn(col) ==
    /\ ElementsOf(col) # {}
    /\ \A x \in ElementsOf(col) : x.cls = "str"

\* C22: in every column of the mapping each list value is replaced by
\* format_array of it, an integer-list column is tagged True and a string-list
\* column False.
C22_ListColumnsFormattedAndTagged ==
    Prepared =>
        \A c \in DOMAIN prepOut.array_cols :
            LET col == prepIn.df[c]
            IN /\ \A i \in DOMAIN col.cells :
                    IsArrayLike(col.cells[i])
                        => prepOut.df[c].cells[i]
                             = FormatArrayCell(prepIn.db_type, col.cells[i])
               /\ IsIntegerListColumn(col) => prepOut.array_cols[c]
               /\ IsStringListColumn(col) => ~prepOut.array_cols[c]

\* C27: the frame a model passed to write_df has, after the write, the column
\* names, dtypes and cells it had before, for every registered bundle.
C27_WriteLeavesFrame ==
    (prepOut # Pending /\ prepOut.op = "write_df") => prepOut.passed = prepIn.df

----------------------------------------------------------------------------
(* Properties of the geometry-aware reads *)

GeoRead == geoOut # Pending /\ geoOut.pc \in {"read_arrow", "raised", "from_arrow"}
GeoConverted == geoOut # Pending /\ geoOut.pc = "from_arrow"

GeometryRows == SelectSeq(geoIn.catalog, LAMBDA c : c.kind = "geometry")

NameSeq(cols) == [i \in DOMAIN cols |-> cols[i].name]

\* C23: a geometry-aware read of a table with a geometry column keeps the
\* catalog's column order: the SELECT lists each column, or its encoded form,
\* at its ordinal position, and the frame has the columns in that order.
C23_GeoReadKeepsColumnOrder ==
    (GeoConverted /\ Len(GeometryRows) > 0 /\ geoOut.frame.ok)
        => /\ Len(geoOut.result.table) = Len(geoIn.catalog)
           /\ \A i \in DOMAIN geoIn.catalog :
                 geoOut.result.table[i].name
                    \in {geoIn.catalog[i].name, Wkb(geoIn.catalog[i].name)}
           /\ NameSeq(geoOut.frame.columns) = NameSeq(geoIn.catalog)

\* the SRID the policy gives a catalog value: the integer itself, or the
\* default for NULL, NaN, text and zero
PolicySrid(value) ==
    IF value.cls # "int" THEN DEFAULT_SRID
    ELSE IF value.value = 0 THEN DEFAULT_SRID
    ELSE value.value

\* C24: get_geometry_columns maps every geometry column to its catalog SRID,
\* or to DEFAULT_SRID when that is missing, zero or not an integer, never to
\* 0; the srid of the GeoArrowResult is that of the first geometry column,
\* DEFAULT_SRID when there is none.
C24_SridPolicy ==
    GeoRead =>
        LET geom_cols == geoOut.result.geom_cols
        IN /\ Len(geom_cols) = Len(GeometryRows)
           /\ \A i \in DOMAIN GeometryRows :
                 \E k \in DOMAIN geom_cols :
                    /\ geom_cols[k].name
                          = IF geoIn.db_type = "snowflake"
                            THEN Lower(GeometryRows[i].name) ELSE GeometryRows[i].name
                    /\ geom_cols[k].srid = PolicySrid(GeometryRows[i].srid)
                    /\ geom_cols[k].srid # 0
           /\ geoOut.result.ok =>
                 /\ geoOut.result.geometry_columns = NameSeq(geom_cols)
                 /\ geoOut.result.srid
                       = IF Len(geom_cols) = 0 THEN DEFAULT_SRID ELSE geom_cols[1].srid

\* a PostgreSQL table whose first geometry column has SRID 0 in the catalog
\* and whose second has 28992 was read
C24_Witness ==
    /\ GeoConverted
    /\ geoIn.db_type = "postgres"
    /\ Len(geoOut.result.geom_cols) = 2
    /\ \E i \in DOMAIN GeometryRows :
          /\ GeometryRows[i].srid = PyInt(0)
          /\ GeometryRows[i].name = geoOut.result.geom_cols[1].name
    /\ geoOut.result.geom_cols[2].srid = 28992
    /\ geoOut.result.srid = DEFAULT_SRID

\* C28: from_arrow can consume every GeoArrowResult a geometry-aware reader
\* makes: the table has '<g>_wkb' (format wkb) or g itself (format geojson)
\* for every g of geometry_columns, and the frame has a column g for each,
\* no '_wkb' column, and the first of them as its active geometry.
C28_GeoArrowResultConsumable ==
    GeoConverted =>
        LET result == geoOut.result
            gs == {result.geometry_columns[i] : i \in DOMAIN result.geometry_columns}
        IN /\ \A g \in gs :
                 (IF result.format = "wkb" THEN Wkb(g) ELSE g) \in NamesOf(result.table)
           /\ geoOut.frame.ok
           /\ \A g \in gs : /\ g \in NamesOf(geoOut.frame.columns)
                             /\ Wkb(g) \notin NamesOf(geoOut.frame.columns)
           /\ gs # {} => geoOut.frame.geometry = result.geometry_columns[1]

----------------------------------------------------------------------------
(* Properties of the order of a writer's steps *)

WroteWith(class) == WriteDone /\ dbOut.ok /\ ClassOf(executor.writer) = class

StepsOf(log) == [i \in DOMAIN log |-> log[i].step]

\* where in a record of steps a step was taken
At(log, what) == {i \in DOMAIN log : log[i].step = what}

FrameGeometryColumns == ColumnsOfKind(dbOut.df, {"geometry"})

\* the four statements that swap a text column for a GEOGRAPHY column
ColumnSwap == <<"add_column", "update", "drop_column", "rename_column">>

C26_PostgresWriterOrder ==
    WroteWith("PostgresWriter")
        => LET log == dbOut.log
               array_cols == PrepareArrayColumns(dbOut.df)
               casts == At(log, "post_write_sql")
           IN /\ Cardinality(At(log, "prepare_array_columns")) = 1
              /\ Cardinality(At(log, "write_database")) = 1
              /\ \A p \in At(log, "prepare_array_columns"), w \in At(log, "write_database") :
                    /\ p < w
                    /\ \A c \in casts : w < c
              /\ \A col \in DOMAIN array_cols :
                    \E c \in casts :
                       /\ log[c].col = col
                       /\ log[c].dtype = IF array_cols[col] THEN "INTEGER[]" ELSE "TEXT[]"
                       /\ \A d \in casts : log[d].col = col => d = c
              /\ \A c \in casts : log[c].col \in DOMAIN array_cols
              /\ dbOut.value.rows_affected = Cardinality(dbOut.df.rows)

\* a frame with an integer-list and a string-list column has been written
C26_Witness ==
    /\ WroteWith("PostgresWriter")
    /\ Cardinality(At(dbOut.log, "post_write_sql")) = 2
    /\ tables[PgQuoted(dbOut.source)].cols["x"] = "INTEGER[]"
    /\ tables[PgQuoted(dbOut.source)].cols["y"] = "TEXT[]"

----------------------------------------------------------------------------
(* Properties of the type mapping *)

\* what Executor.type_mapping holds for a type name
MappedLibrary(t) ==
    IF DictHas(type_mapping, t) THEN PyStr(DictGet(type_mapping, t)) ELSE NoneVal

\* C29: after any sequence of register calls the type mapping sends each type
\* name to the library of the latest register call that handled it, and
\* get_library_for_type returns that library, None for a name no call
\* handled; a register call never removes a name from the mapping.
C29_TypeMappingLatest ==
    /\ [](/\ \A t \in TypeNames : MappedLibrary(t) = lastHandled[t]
          /\ lastCall.op = "get_library_for_type"
                => LET latest == lastHandled[lastCall.args.type_hint]
                   IN IF latest = NoneVal THEN lastCall.result.value = NoneVal
                      ELSE lastCall.result.value = latest.value)
    /\ [][\A t \in TypeNames : DictHas(type_mapping, t) => DictHas(type_mapping', t)]_vars

\* (polars, postgres), registered at startup for PolarsDbt, has been registered
\* again for two other names
C29_Witness ==
    /\ lastCall.op = "register"
    /\ lastCall.args.library = "polars" /\ lastCall.args.db_type = "postgres"
    /\ lastCall.args.handled_types = <<"RustDbt", "PandasDbt">>
    /\ MappedLibrary("PolarsDbt") = PyStr("polars")
    /\ MappedLibrary("PandasDbt") = PyStr("polars")
    /\ MappedLibrary("RustDbt") = PyStr("polars")
    /\ MappedLibrary("GeoPandasDbt") = PyStr("geopandas")

----------------------------------------------------------------------------
(* Properties of release_plugin_lock *)

Holds(t) == t \in lockHeldBy

InsideBlock(t) == plugin[t].pc \in {"body", "finally"}

\* the with statement has been left, by a return or by an exception
LeftBlock(t) ==
    /\ plugin[t].pc \in {"__new__", "constructed", "raising"}
    /\ plugin[t].block # "none"

\* C30: release_plugin_lock gives up the factory lock on entry and takes it
\* again on exit, whether the body returned or raised, so the thread that held
\* the lock before the block holds it after the block; while the body runs
\* another thread may take the lock, and the thread leaving the block waits
\* until the lock is free.
C30_LockReleasedAndTakenBack ==
    /\ [](\A t \in PluginThreads :
            /\ Cardinality(lockHeldBy) <= 1
            /\ plugin[t].pc \in {"get_db_credentials", "__new__"} => Holds(t)
            /\ InsideBlock(t) => ~Holds(t)
            /\ LeftBlock(t) => Holds(t))
    /\ [][\A t \in PluginThreads :
            /\ (plugin[t].pc = "finally" /\ plugin'[t].pc # "finally")
                  => lockHeldBy = {} /\ lockHeldBy' = {t}
            /\ (plugin[t].pc \in {"get_db_credentials", "__new__"}
                   /\ plugin'[t].pc = "body")
                  => lockHeldBy' = {}]_vars

\* a thread whose body raised waits at the exit while another thread, which
\* took the lock in the meantime, is inside the factory
C30_Witness ==
    \E t, u \in PluginThreads :
        /\ t # u
        /\ plugin[t].pc = "finally" /\ plugin[t].outcome = "raised"
        /\ plugin[u].pc = "get_db_credentials"
        /\ lockHeldBy = {u}

====
